---- MODULE Spec2Model ----
(***************************************************************************)
(* NFT directory engine and NFT transactors of rippled                     *)
(* (NFTokenUtils.cpp, NFTokenMint.cpp, NFTokenAcceptOffer.cpp).             *)
(*                                                                         *)
(* A 256-bit token identifier is an integer packed positionally, exactly   *)
(* as createTokenID packs it, with the field widths scaled down:           *)
(*   flags | fee (16 bit) | issuer | ciphered taxon | mint sequence        *)
(* nft::pageMask keeps the low 96 bits of an identifier: the low 32 bits   *)
(* of the issuer, the ciphered taxon and the sequence.  Here it keeps the  *)
(* low binary digit of the issuer, the taxon and the sequence.             *)
(***************************************************************************)
EXTENDS Integers, Sequences, FiniteSets, TLC

\* ------------------------------------------------------------------ bounds
\* capacity of one NFT page (32 in the protocol, scaled down)
dirMaxTokensPerPage == 4
\* number of values of the 32-bit mint sequence field (2^32, scaled down)
SeqSpan == 3
\* number of accounts in the ledger
NumAccounts == 4
\* binary digits of the taxon field (32 in the protocol, scaled down)
TaxonBits == 1
\* most tokens the directory harness keeps in the directory at once
MaxHeld == 7
\* most tokens minted in a run of the transactors
MaxMints == 2
\* most offers created in a run of the transactors
MaxOffers == 2
\* what every account holds of the payment asset at the start
InitBalance == 1000

\* ------------------------------------------------------------- identifiers
Accounts == 0 .. (NumAccounts - 1)
\* number of values of the 160-bit account field (scaled down)
AccountSpan == NumAccounts
RECURSIVE Pow2(_)
Pow2(n) == IF n = 0 THEN 1 ELSE 2 * Pow2(n - 1)
\* number of values of the 32-bit taxon field
TaxonSpan == Pow2(TaxonBits)
FeeSpan == 65536
tfTransferable == 8

\* number of values of the masked part of an identifier (2^96, scaled)
PageSpan == 2 * TaxonSpan * SeqSpan
\* low part of keylet::nftpage_max(owner): the mask itself, all ones
pageMax == PageSpan - 1
NoKey == 0 - 1
NoAccount == 0 - 1
NoOffer == 0 - 1
NoAmount == 0 - 1
NoExpiration == 0 - 1
\* the assets an amount can be in: xrpIssue() and one issued currency
xrpIssue == 0
iouIssue == 1
Issues == {xrpIssue, iouIssue}

\* id & nft::pageMask
pageMask(id) == id % PageSpan

RECURSIVE Xor(_, _)
Xor(a, b) ==
    IF a = 0 /\ b = 0 THEN 0
    ELSE ((a + b) % 2) + 2 * Xor(a \div 2, b \div 2)

lcgMultiplier == 384160001
lcgIncrement == 2459
\* nft::cipheredTaxon: the taxon XOR a linear congruential function of the
\* sequence, reduced to the width of the taxon field
cipheredTaxon(tokenSeq, taxon) ==
    Xor(taxon, (((lcgMultiplier % TaxonSpan) * tokenSeq) + lcgIncrement) % TaxonSpan)

createTokenID(flags, fee, issuer, taxon, tokenSeq) ==
    ((((flags * FeeSpan + fee) * AccountSpan + issuer) * TaxonSpan
        + cipheredTaxon(tokenSeq, taxon)) * SeqSpan) + tokenSeq

\* nft::getIssuer, nft::getTransferFee, nft::getFlags: the fields of an id
getIssuer(id) == (id \div (TaxonSpan * SeqSpan)) % AccountSpan
getTransferFee(id) == (id \div (AccountSpan * TaxonSpan * SeqSpan)) % FeeSpan
getFlags(id) == id \div (FeeSpan * AccountSpan * TaxonSpan * SeqSpan)

\* --------------------------------------------------------------- the state
VARIABLES
    pages,          \* pages[owner]: key (low part) -> [tokens, prev, next]
    ownerCount,     \* sfOwnerCount of every account root
    mintedTokens,   \* sfMintedTokens of every account root
    burnedTokens,   \* sfBurnedTokens of every account root
    minter,         \* sfMinter of every account root, NoAccount when absent
    xrp,            \* native balance of every account, what the reserve is checked against
    balance,        \* what every account holds of the native asset to pay for tokens
    iou,            \* what every account holds of the issued currency
    offers,         \* NFT offer objects by offer index
    ownerDir,       \* the offer indexes in every account's owner directory
    nftBuys,        \* <<token, offer index>> entries of the tokens' buy directories
    nftSells,       \* <<token, offer index>> entries of the tokens' sell directories
    offerSeq,       \* number of offers created so far, the next offer index minus one
    closeTime,      \* close time of the parent ledger
    live,           \* history: the tokens put into the ledger and not taken out since
    last            \* the operation that ran last and its result

vars ==
    <<pages, ownerCount, mintedTokens, burnedTokens, minter, xrp, balance, iou, offers,
      ownerDir, nftBuys, nftSells, offerSeq, closeTime, live, last>>

\* the mutable view a transactor works on
View ==
    [pages |-> pages, ownerCount |-> ownerCount, mintedTokens |-> mintedTokens,
     burnedTokens |-> burnedTokens, balance |-> balance, iou |-> iou,
     offers |-> offers,
     ownerDir |-> ownerDir, nftBuys |-> nftBuys, nftSells |-> nftSells,
     offerSeq |-> offerSeq]

tesSUCCESS == "tesSUCCESS"
tecNO_ENTRY == "tecNO_ENTRY"
tecNO_SUITABLE_PAGE == "tecNO_SUITABLE_PAGE"
\* a std::runtime_error thrown by the directory code
tefEXCEPTION == "tefEXCEPTION"

\* ------------------------------------------------------ directory engine
SetMin(S) == CHOOSE x \in S : \A y \in S : x <= y

\* view.succ(first.key, last.key.next()).value_or(last.key), then read/peek:
\* the key of the located page, NoKey when there is no such page
locatePage(v, owner, id) ==
    LET dir == v.pages[owner]
        later == {k \in DOMAIN dir : k > pageMask(id) /\ k < pageMax + 1}
        key == IF later = {} THEN pageMax ELSE SetMin(later)
    IN  IF key \in DOMAIN dir THEN key ELSE NoKey

adjustOwnerCount(v, owner, n) ==
    [v EXCEPT !.ownerCount[owner] = @ + n]

compareTokens(a, b) == pageMask(a) < pageMask(b)

\* index of the first element of arr at or after from that satisfies
\* Test, Len(arr) + 1 when there is none (std::find_if)
RECURSIVE firstTrue(_, _)
firstTrue(hits, from) ==
    IF from > Len(hits) THEN Len(hits) + 1
    ELSE IF hits[from] THEN from
    ELSE firstTrue(hits, from + 1)

findIf(arr, from, Test(_)) ==
    firstTrue([i \in 1 .. Len(arr) |-> Test(arr[i])], from)

setPage(v, owner, key, page) ==
    [v EXCEPT !.pages[owner] =
        [k \in (DOMAIN @) \cup {key} |-> IF k = key THEN page ELSE @[k]]]

erasePage(v, owner, key) ==
    [v EXCEPT !.pages[owner] = [k \in (DOMAIN @) \ {key} |-> @[k]]]

\* getPageForToken returns [page |-> key or NoKey (nullptr), v |-> the view
\* afterwards], with threw |-> TRUE added when view.insert throws

\* no page was located: a new page at the maximum key
createPage(v, owner) ==
    [page |-> pageMax,
     v |-> adjustOwnerCount(
               setPage(v, owner, pageMax,
                       [tokens |-> << >>, prev |-> NoKey, next |-> NoKey]),
               owner, 1)]

\* the position the full array narr is split at: the first entry from the
\* middle on that is not equivalent to the entry before the middle, else
\* the first entry that is equivalent to it
splitIter(narr) ==
    LET half == dirMaxTokensPerPage \div 2
        cmp == pageMask(narr[half])
        fromMiddle == findIf(narr, half + 1, LAMBDA t : pageMask(t) # cmp)
    IN  IF fromMiddle = Len(narr) + 1
        THEN findIf(narr, 1, LAMBDA t : pageMask(t) = cmp)
        ELSE fromMiddle

\* a faulty split that goes ahead when the page holds equivalent tokens only
splitPage_splitsAtFront(v, owner, id, cpKey, at) ==
    LET cp == v.pages[owner][cpKey]
        carr == SubSeq(cp.tokens, at, Len(cp.tokens))
        npKey == pageMask(carr[1])
        np == [tokens |-> SubSeq(cp.tokens, 1, at - 1), prev |-> cp.prev, next |-> cpKey]
        v1 == IF cp.prev # NoKey /\ cp.prev \in DOMAIN v.pages[owner]
              THEN setPage(v, owner, cp.prev,
                           [v.pages[owner][cp.prev] EXCEPT !.next = npKey])
              ELSE v
        v3 == setPage(setPage(v1, owner, npKey, np), owner, cpKey,
                      [cp EXCEPT !.tokens = carr, !.prev = npKey])
    IN
    IF at = Len(cp.tokens) + 1
    THEN [page |-> NoKey, v |-> v]
    ELSE IF npKey \in DOMAIN v.pages[owner]
    THEN [page |-> NoKey, v |-> v, threw |-> TRUE]
    ELSE [page |-> IF pageMask(id) <= npKey THEN npKey ELSE cpKey,
          v |-> adjustOwnerCount(v3, owner, 1)]

\* a faulty split that keys the new page by the first entry of the full page
splitPage_keyedByFirst(v, owner, id, cpKey, at) ==
    LET cp == v.pages[owner][cpKey]
        carr == SubSeq(cp.tokens, at, Len(cp.tokens))
        npKey == pageMask(cp.tokens[1])
        np == [tokens |-> SubSeq(cp.tokens, 1, at - 1), prev |-> cp.prev, next |-> cpKey]
        v1 == IF cp.prev # NoKey /\ cp.prev \in DOMAIN v.pages[owner]
              THEN setPage(v, owner, cp.prev,
                           [v.pages[owner][cp.prev] EXCEPT !.next = npKey])
              ELSE v
        v3 == setPage(setPage(v1, owner, npKey, np), owner, cpKey,
                      [cp EXCEPT !.tokens = carr, !.prev = npKey])
    IN
    IF at = 1 \/ at = Len(cp.tokens) + 1
    THEN [page |-> NoKey, v |-> v]
    ELSE IF npKey \in DOMAIN v.pages[owner]
    THEN [page |-> NoKey, v |-> v, threw |-> TRUE]
    ELSE [page |-> IF pageMask(id) <= npKey THEN npKey ELSE cpKey,
          v |-> adjustOwnerCount(v3, owner, 1)]

\* the full page cpKey is split at position at: the entries before it go to
\* a new page keyed by the first entry that stays
splitPage(v, owner, id, cpKey, at) ==
    LET cp == v.pages[owner][cpKey]
        carr == SubSeq(cp.tokens, at, Len(cp.tokens))
        npKey == pageMask(carr[1])
        np == [tokens |-> SubSeq(cp.tokens, 1, at - 1), prev |-> cp.prev, next |-> cpKey]
        v1 == IF cp.prev # NoKey /\ cp.prev \in DOMAIN v.pages[owner]
              THEN setPage(v, owner, cp.prev,
                           [v.pages[owner][cp.prev] EXCEPT !.next = npKey])
              ELSE v
        v3 == setPage(setPage(v1, owner, npKey, np), owner, cpKey,
                      [cp EXCEPT !.tokens = carr, !.prev = npKey])
    IN
    IF at = 1 \/ at = Len(cp.tokens) + 1
    THEN [page |-> NoKey, v |-> v]
    ELSE IF npKey \in DOMAIN v.pages[owner]
    THEN [page |-> NoKey, v |-> v, threw |-> TRUE]
    ELSE [page |-> IF pageMask(id) <= npKey THEN npKey ELSE cpKey,
          v |-> adjustOwnerCount(v3, owner, 1)]

\* getPageForToken once the page cpKey is located
pageForToken(v, owner, id, cpKey) ==
    IF cpKey = NoKey THEN createPage(v, owner)
    ELSE IF Len(v.pages[owner][cpKey].tokens) # dirMaxTokensPerPage
    THEN [page |-> cpKey, v |-> v]
    ELSE splitPage(v, owner, id, cpKey, splitIter(v.pages[owner][cpKey].tokens))

getPageForToken(v, owner, id) ==
    pageForToken(v, owner, id, locatePage(v, owner, id))

\* a faulty sortedInsert that puts the token at the end of the array
sortedInsert_appends(arr, id) == Append(arr, id)

\* arr.push_back(nft); arr.sort(compareTokens): the new entry ends up behind
\* the entries that do not compare greater than it
sortedInsert(arr, id) ==
    LET pos == findIf(arr, 1, LAMBDA t : compareTokens(id, t))
    IN  SubSeq(arr, 1, pos - 1) \o <<id>> \o SubSeq(arr, pos, Len(arr))

\* insertToken on the result r of getPageForToken
insertIntoPage(r, v, owner, id) ==
    IF "threw" \in DOMAIN r THEN [ter |-> tefEXCEPTION, v |-> v]
    ELSE IF r.page = NoKey THEN [ter |-> tecNO_SUITABLE_PAGE, v |-> r.v]
    ELSE [ter |-> tesSUCCESS,
          v |-> setPage(r.v, owner, r.page,
                        [r.v.pages[owner][r.page] EXCEPT
                            !.tokens = sortedInsert(@, id)])]

insertToken(v, owner, id) ==
    insertIntoPage(getPageForToken(v, owner, id), v, owner, id)

\* std::merge of two sorted arrays under compareTokens
RECURSIVE mergeArrays(_, _)
mergeArrays(a, b) ==
    IF a = << >> THEN b
    ELSE IF b = << >> THEN a
    ELSE IF compareTokens(Head(b), Head(a))
         THEN <<Head(b)>> \o mergeArrays(a, Tail(b))
         ELSE <<Head(a)>> \o mergeArrays(Tail(a), b)

\* a faulty mergePages that merges two pages whatever they hold together
mergePages_anySize(v, owner, k1, k2) ==
    LET dir == v.pages[owner]
        p1 == dir[k1]
        p2 == dir[k2]
    IN
    IF k1 >= k2 \/ p1.next # k2 \/ p2.prev # k1
    THEN [merged |-> FALSE, threw |-> TRUE, v |-> v]
    ELSE IF p1.prev # NoKey /\ p1.prev \notin DOMAIN dir
    THEN [merged |-> FALSE, threw |-> TRUE, v |-> v]
    ELSE
    LET x == mergeArrays(p1.tokens, p2.tokens)
        v1 == IF p1.prev # NoKey
              THEN setPage(v, owner, p1.prev, [dir[p1.prev] EXCEPT !.next = k2])
              ELSE v
        v2 == setPage(v1, owner, k2,
                      [p2 EXCEPT !.tokens = x, !.prev = p1.prev])
    IN  [merged |-> TRUE, threw |-> FALSE, v |-> erasePage(v2, owner, k1)]

\* a faulty mergePages whose size check is off by one
mergePages_offByOne(v, owner, k1, k2) ==
    LET dir == v.pages[owner]
        p1 == dir[k1]
        p2 == dir[k2]
    IN
    IF k1 >= k2 \/ p1.next # k2 \/ p2.prev # k1
    THEN [merged |-> FALSE, threw |-> TRUE, v |-> v]
    ELSE IF Len(p1.tokens) + Len(p2.tokens) > dirMaxTokensPerPage + 1
    THEN [merged |-> FALSE, threw |-> FALSE, v |-> v]
    ELSE IF p1.prev # NoKey /\ p1.prev \notin DOMAIN dir
    THEN [merged |-> FALSE, threw |-> TRUE, v |-> v]
    ELSE
    LET x == mergeArrays(p1.tokens, p2.tokens)
        v1 == IF p1.prev # NoKey
              THEN setPage(v, owner, p1.prev, [dir[p1.prev] EXCEPT !.next = k2])
              ELSE v
        v2 == setPage(v1, owner, k2,
                      [p2 EXCEPT !.tokens = x, !.prev = p1.prev])
    IN  [merged |-> TRUE, threw |-> FALSE, v |-> erasePage(v2, owner, k1)]

\* [merged |-> the pages were merged, threw |-> a consistency check fired,
\*  v |-> the view afterwards]
mergePages(v, owner, k1, k2) ==
    LET dir == v.pages[owner]
        p1 == dir[k1]
        p2 == dir[k2]
    IN
    IF k1 >= k2 \/ p1.next # k2 \/ p2.prev # k1
    THEN [merged |-> FALSE, threw |-> TRUE, v |-> v]
    ELSE IF Len(p1.tokens) + Len(p2.tokens) > dirMaxTokensPerPage
    THEN [merged |-> FALSE, threw |-> FALSE, v |-> v]
    ELSE IF p1.prev # NoKey /\ p1.prev \notin DOMAIN dir
    THEN [merged |-> FALSE, threw |-> TRUE, v |-> v]
    ELSE
    LET x == mergeArrays(p1.tokens, p2.tokens)
        v1 == IF p1.prev # NoKey
              THEN setPage(v, owner, p1.prev, [dir[p1.prev] EXCEPT !.next = k2])
              ELSE v
        v2 == setPage(v1, owner, k2,
                      [p2 EXCEPT !.tokens = x, !.prev = p1.prev])
    IN  [merged |-> TRUE, threw |-> FALSE, v |-> erasePage(v2, owner, k1)]

\* position of tokenID in arr, Len(arr) + 1 when it is not there
indexOf(arr, tokenID) == findIf(arr, 1, LAMBDA t : t = tokenID)

removeAt(arr, i) == SubSeq(arr, 1, i - 1) \o SubSeq(arr, i + 1, Len(arr))

noMerge(v) == [merged |-> FALSE, threw |-> FALSE, v |-> v]

\* a faulty end of removeToken that takes one page off the owner count
\* however many pages were merged
consolidated_countsOnce(v, owner, m1, m2) ==
    LET cnt == IF m1.merged \/ m2.merged THEN 0 - 1 ELSE 0
    IN
    IF m1.threw \/ m2.threw THEN [ter |-> tefEXCEPTION, v |-> v]
    ELSE [ter |-> tesSUCCESS,
          v |-> IF cnt # 0 THEN adjustOwnerCount(m2.v, owner, cnt) ELSE m2.v]

\* the end of removeToken for a page that keeps tokens: m1 is the outcome of
\* the merge with the previous page, m2 of the merge with the next page
consolidated(v, owner, m1, m2) ==
    LET cnt == (IF m1.merged THEN 0 - 1 ELSE 0) + (IF m2.merged THEN 0 - 1 ELSE 0)
    IN
    IF m1.threw \/ m2.threw THEN [ter |-> tefEXCEPTION, v |-> v]
    ELSE [ter |-> tesSUCCESS,
          v |-> IF cnt # 0 THEN adjustOwnerCount(m2.v, owner, cnt) ELSE m2.v]

consolidateNext(v, owner, currKey, next, m1) ==
    consolidated(v, owner, m1,
                 IF next # NoKey THEN mergePages(m1.v, owner, currKey, next)
                 ELSE noMerge(m1.v))

\* the page keeps the tokens arr: update it, then try to merge it with its
\* neighbours
removeNonEmpty(v, owner, currKey, arr) ==
    LET curr == v.pages[owner][currKey]
        v1 == setPage(v, owner, currKey, [curr EXCEPT !.tokens = arr])
    IN  consolidateNext(v, owner, currKey, curr.next,
                        IF curr.prev # NoKey
                        THEN mergePages(v1, owner, curr.prev, currKey)
                        ELSE noMerge(v1))

\* the end of removeToken for a page that was emptied: m is the outcome of
\* the merge of its former neighbours
unlinked(v, owner, m) ==
    IF m.threw THEN [ter |-> tefEXCEPTION, v |-> v]
    ELSE [ter |-> tesSUCCESS,
          v |-> adjustOwnerCount(m.v, owner, 0 - (1 + (IF m.merged THEN 1 ELSE 0)))]

\* a faulty removal of an emptied page that leaves the next page pointing at it
removeEmptied_keepsBackLink(v, owner, currKey) ==
    LET dir == v.pages[owner]
        prev == dir[currKey].prev
        next == dir[currKey].next
        v1 == IF prev # NoKey
              THEN setPage(v, owner, prev, [dir[prev] EXCEPT !.next = next])
              ELSE v
    IN  unlinked(v, owner,
                 IF prev # NoKey /\ next # NoKey
                 THEN mergePages(erasePage(v1, owner, currKey), owner, prev, next)
                 ELSE noMerge(erasePage(v1, owner, currKey)))

\* the page is empty: unlink it, erase it, then try to merge its neighbours
removeEmptied(v, owner, currKey) ==
    LET dir == v.pages[owner]
        prev == dir[currKey].prev
        next == dir[currKey].next
        v1 == IF prev # NoKey
              THEN setPage(v, owner, prev, [dir[prev] EXCEPT !.next = next])
              ELSE v
        v2 == IF next # NoKey
              THEN setPage(v1, owner, next, [dir[next] EXCEPT !.prev = prev])
              ELSE v1
    IN  unlinked(v, owner,
                 IF prev # NoKey /\ next # NoKey
                 THEN mergePages(erasePage(v2, owner, currKey), owner, prev, next)
                 ELSE noMerge(erasePage(v2, owner, currKey)))

\* a faulty removeToken that does not check that the token is in the page
removeFound_skipsCheck(v, owner, currKey, x) ==
    LET dir == v.pages[owner]
        curr == dir[currKey]
    IN
    IF \/ (curr.prev # NoKey /\ curr.prev \notin DOMAIN dir)
       \/ (curr.next # NoKey /\ curr.next \notin DOMAIN dir)
    THEN [ter |-> tefEXCEPTION, v |-> v]
    ELSE IF removeAt(curr.tokens, x) # << >>
    THEN removeNonEmpty(v, owner, currKey, removeAt(curr.tokens, x))
    ELSE removeEmptied(v, owner, currKey)

\* removeToken once the page currKey is located and the position x of the
\* token in it is known (Len + 1: not there)
removeFound(v, owner, currKey, x) ==
    LET dir == v.pages[owner]
        curr == dir[currKey]
    IN
    IF x = Len(curr.tokens) + 1 THEN [ter |-> tecNO_ENTRY, v |-> v]
    \* loadPage: a link to a page that cannot be loaded throws
    ELSE IF \/ (curr.prev # NoKey /\ curr.prev \notin DOMAIN dir)
            \/ (curr.next # NoKey /\ curr.next \notin DOMAIN dir)
    THEN [ter |-> tefEXCEPTION, v |-> v]
    ELSE IF removeAt(curr.tokens, x) # << >>
    THEN removeNonEmpty(v, owner, currKey, removeAt(curr.tokens, x))
    ELSE removeEmptied(v, owner, currKey)

removeLocated(v, owner, tokenID, currKey) ==
    IF currKey = NoKey THEN [ter |-> tecNO_ENTRY, v |-> v]
    ELSE removeFound(v, owner, currKey,
                     indexOf(v.pages[owner][currKey].tokens, tokenID))

removeToken(v, owner, tokenID) ==
    removeLocated(v, owner, tokenID, locatePage(v, owner, tokenID))

\* TRUE when findToken returns the token, FALSE when it returns nullopt
findToken(v, owner, tokenID) ==
    LET key == locatePage(v, owner, tokenID)
    IN  /\ key # NoKey
        /\ \E i \in 1 .. Len(v.pages[owner][key].tokens) :
                v.pages[owner][key].tokens[i] = tokenID

\* ------------------------------------------------------------- offers
eraseOffer(v, idx) ==
    [v EXCEPT !.offers = [k \in (DOMAIN @) \ {idx} |-> @[k]]]

\* a faulty deleteTokenOffer that does not lower the owner count
deleteTokenOffer_keepsCount(v, idx) ==
    LET offer == v.offers[idx]
        owner == offer.owner
        entry == <<offer.tokenID, idx>>
        v1 == [v EXCEPT !.ownerDir[owner] = @ \ {idx}]
        v2 == IF offer.sell
              THEN [v1 EXCEPT !.nftSells = @ \ {entry}]
              ELSE [v1 EXCEPT !.nftBuys = @ \ {entry}]
    IN
    IF idx \notin v.ownerDir[owner] THEN [ok |-> FALSE, v |-> v]
    ELSE IF entry \notin (IF offer.sell THEN v.nftSells ELSE v.nftBuys)
    THEN [ok |-> FALSE, v |-> v1]
    ELSE [ok |-> TRUE, v |-> eraseOffer(v2, idx)]

\* nft::deleteTokenOffer: [ok |-> what it returns, v |-> the view afterwards]
deleteTokenOffer(v, idx) ==
    LET offer == v.offers[idx]
        owner == offer.owner
        entry == <<offer.tokenID, idx>>
        v1 == [v EXCEPT !.ownerDir[owner] = @ \ {idx}]
        v2 == IF offer.sell
              THEN [v1 EXCEPT !.nftSells = @ \ {entry}]
              ELSE [v1 EXCEPT !.nftBuys = @ \ {entry}]
    IN
    IF idx \notin v.ownerDir[owner] THEN [ok |-> FALSE, v |-> v]
    ELSE IF entry \notin (IF offer.sell THEN v.nftSells ELSE v.nftBuys)
    THEN [ok |-> FALSE, v |-> v1]
    ELSE [ok |-> TRUE, v |-> eraseOffer(adjustOwnerCount(v2, owner, 0 - 1), idx)]

\* the callback nft::removeAllTokenOffers hands to dirDelete, run on every
\* entry in idxs: [threw, v]
RECURSIVE removeOfferEntries(_, _)
removeOfferEntries(v, idxs) ==
    IF idxs = {} THEN [threw |-> FALSE, v |-> v]
    ELSE
    LET idx == CHOOSE i \in idxs : TRUE
    IN
    IF idx \notin DOMAIN v.offers THEN [threw |-> TRUE, v |-> v]
    ELSE
    LET owner == v.offers[idx].owner
    IN
    IF idx \notin v.ownerDir[owner] THEN [threw |-> TRUE, v |-> v]
    ELSE removeOfferEntries(
            eraseOffer(
                adjustOwnerCount([v EXCEPT !.ownerDir[owner] = @ \ {idx}], owner, 0 - 1),
                idx),
            idxs \ {idx})

\* nft::removeAllTokenOffers on the sell directory (sells = TRUE) or the buy
\* directory of a token
removeAllTokenOffers(v, tokenID, sells) ==
    LET dir == IF sells THEN v.nftSells ELSE v.nftBuys
        entries == {e \in dir : e[1] = tokenID}
        r == removeOfferEntries(v, {e[2] : e \in entries})
    IN  [threw |-> r.threw,
         v |-> IF sells
               THEN [r.v EXCEPT !.nftSells = @ \ entries]
               ELSE [r.v EXCEPT !.nftBuys = @ \ entries]]

\* ----------------------------------------------------------- result codes
temMALFORMED == "temMALFORMED"
temBAD_TRANSFER_FEE == "temBAD_TRANSFER_FEE"
temBAD_AMOUNT == "temBAD_AMOUNT"
tecNO_ISSUER == "tecNO_ISSUER"
tecNO_PERMISSION == "tecNO_PERMISSION"
tecMAX_SEQUENCE_REACHED == "tecMAX_SEQUENCE_REACHED"
tecINSUFFICIENT_RESERVE == "tecINSUFFICIENT_RESERVE"
tecOBJECT_NOT_FOUND == "tecOBJECT_NOT_FOUND"
tecBUY_SELL_MISMATCH == "tecBUY_SELL_MISMATCH"
tecINSUFFICIENT_PAYMENT == "tecINSUFFICIENT_PAYMENT"
tecOFFER_TYPE_MISMATCH == "tecOFFER_TYPE_MISMATCH"
tecCANT_ACCEPT_OWN_OFFER == "tecCANT_ACCEPT_OWN_OFFER"
tecINSUFFICIENT_FUNDS == "tecINSUFFICIENT_FUNDS"
tecUNFUNDED_OFFER == "tecUNFUNDED_OFFER"
tecFAILED_PROCESSING == "tecFAILED_PROCESSING"
tefNFTOKEN_IS_NOT_TRANSFERABLE == "tefNFTOKEN_IS_NOT_TRANSFERABLE"
tecINTERNAL == "tecINTERNAL"
tecEXPIRED == "tecEXPIRED"
temBAD_EXPIRATION == "temBAD_EXPIRATION"

\* the result of a transaction from its three stages; apply is only looked at
\* when preflight and preclaim pass
stages(preflight, preclaim, apply) ==
    IF preflight # tesSUCCESS THEN [ter |-> preflight]
    ELSE IF preclaim # tesSUCCESS THEN [ter |-> preclaim]
    ELSE apply

\* a faulty commit that keeps the writes of a transaction that did not succeed
commit_keepsWrites(r) ==
    LET v == IF "v" \in DOMAIN r THEN r.v ELSE View
    IN  /\ pages' = v.pages
        /\ ownerCount' = v.ownerCount
        /\ mintedTokens' = v.mintedTokens
        /\ burnedTokens' = v.burnedTokens
        /\ balance' = v.balance
        /\ iou' = v.iou
        /\ offers' = v.offers
        /\ ownerDir' = v.ownerDir
        /\ nftBuys' = v.nftBuys
        /\ nftSells' = v.nftSells
        /\ offerSeq' = v.offerSeq
        /\ UNCHANGED <<minter, xrp, closeTime>>

\* the ledger after a transaction: the writes of a transaction that does not
\* succeed are discarded
commit(r) ==
    LET v == IF r.ter = tesSUCCESS THEN r.v ELSE View
    IN  /\ pages' = v.pages
        /\ ownerCount' = v.ownerCount
        /\ mintedTokens' = v.mintedTokens
        /\ burnedTokens' = v.burnedTokens
        /\ balance' = v.balance
        /\ iou' = v.iou
        /\ offers' = v.offers
        /\ ownerDir' = v.ownerDir
        /\ nftBuys' = v.nftBuys
        /\ nftSells' = v.nftSells
        /\ offerSeq' = v.offerSeq
        /\ UNCHANGED <<minter, xrp, closeTime>>

\* fees().accountReserve(ownerCount)
reserveBase == 200
reserveIncrement == 50
accountReserve(count) == reserveBase + count * reserveIncrement

\* --------------------------------------------------------------- NFTokenMint
maxTransferFee == 50000

\* a faulty preflight that takes any transfer fee
MintPreflight_anyFee(account, issuer, fee) ==
    IF issuer = account THEN temMALFORMED
    ELSE tesSUCCESS

MintPreflight(account, issuer, fee) ==
    IF fee > maxTransferFee THEN temBAD_TRANSFER_FEE
    ELSE IF issuer = account THEN temMALFORMED
    ELSE tesSUCCESS

\* a faulty preclaim that lets any account mint for an issuer that exists
MintPreclaim_anyMinter(account, issuer) ==
    IF issuer = NoAccount THEN tesSUCCESS
    ELSE IF issuer \notin Accounts THEN tecNO_ISSUER
    ELSE tesSUCCESS

MintPreclaim(account, issuer) ==
    IF issuer = NoAccount THEN tesSUCCESS
    ELSE IF issuer \notin Accounts THEN tecNO_ISSUER
    ELSE IF minter[issuer] # account THEN tecNO_PERMISSION
    ELSE tesSUCCESS

\* a faulty doApply that counts the mint on the submitter's account root
MintDoApply_countsSubmitter(v, account, issuerField, flags, fee, taxon) ==
    LET issuer == IF issuerField = NoAccount THEN account ELSE issuerField
        tokenSeq == v.mintedTokens[issuer]
        nextTokenSeq == (tokenSeq + 1) % SeqSpan
        v1 == [v EXCEPT !.mintedTokens[account] = @ + 1]
        ownerCountBefore == v1.ownerCount[account]
        r == insertToken(v1, account, createTokenID(flags, fee, issuer, taxon, tokenSeq))
        ownerCountAfter == r.v.ownerCount[account]
    IN
    IF nextTokenSeq < tokenSeq THEN [ter |-> tecMAX_SEQUENCE_REACHED, v |-> v]
    ELSE IF r.ter = tesSUCCESS /\ ownerCountAfter > ownerCountBefore
            /\ xrp[account] < accountReserve(ownerCountAfter)
    THEN [ter |-> tecINSUFFICIENT_RESERVE, v |-> r.v]
    ELSE r

\* a faulty doApply that never checks the reserve
MintDoApply_skipsReserve(v, account, issuerField, flags, fee, taxon) ==
    LET issuer == IF issuerField = NoAccount THEN account ELSE issuerField
        tokenSeq == v.mintedTokens[issuer]
        nextTokenSeq == (tokenSeq + 1) % SeqSpan
        v1 == [v EXCEPT !.mintedTokens[issuer] = nextTokenSeq]
    IN
    IF nextTokenSeq < tokenSeq THEN [ter |-> tecMAX_SEQUENCE_REACHED, v |-> v]
    ELSE insertToken(v1, account, createTokenID(flags, fee, issuer, taxon, tokenSeq))

\* a faulty doApply that numbers a token by the issuer's tokens still in
\* existence
MintDoApply_numbersLive(v, account, issuerField, flags, fee, taxon) ==
    LET issuer == IF issuerField = NoAccount THEN account ELSE issuerField
        minted == v.mintedTokens[issuer]
        tokenSeq == minted - v.burnedTokens[issuer]
        nextTokenSeq == (minted + 1) % SeqSpan
        v1 == [v EXCEPT !.mintedTokens[issuer] = nextTokenSeq]
        ownerCountBefore == v1.ownerCount[account]
        r == insertToken(v1, account, createTokenID(flags, fee, issuer, taxon, tokenSeq))
        ownerCountAfter == r.v.ownerCount[account]
    IN
    IF nextTokenSeq < minted THEN [ter |-> tecMAX_SEQUENCE_REACHED, v |-> v]
    ELSE IF r.ter = tesSUCCESS /\ ownerCountAfter > ownerCountBefore
            /\ xrp[account] < accountReserve(ownerCountAfter)
    THEN [ter |-> tecINSUFFICIENT_RESERVE, v |-> r.v]
    ELSE r

\* a faulty doApply that lets the sequence wrap
MintDoApply_wraps(v, account, issuerField, flags, fee, taxon) ==
    LET issuer == IF issuerField = NoAccount THEN account ELSE issuerField
        tokenSeq == v.mintedTokens[issuer]
        nextTokenSeq == (tokenSeq + 1) % SeqSpan
        v1 == [v EXCEPT !.mintedTokens[issuer] = nextTokenSeq]
        ownerCountBefore == v1.ownerCount[account]
        r == insertToken(v1, account, createTokenID(flags, fee, issuer, taxon, tokenSeq))
        ownerCountAfter == r.v.ownerCount[account]
    IN
    IF r.ter = tesSUCCESS /\ ownerCountAfter > ownerCountBefore
            /\ xrp[account] < accountReserve(ownerCountAfter)
    THEN [ter |-> tecINSUFFICIENT_RESERVE, v |-> r.v]
    ELSE r

MintDoApply(v, account, issuerField, flags, fee, taxon) ==
    LET issuer == IF issuerField = NoAccount THEN account ELSE issuerField
        tokenSeq == v.mintedTokens[issuer]
        nextTokenSeq == (tokenSeq + 1) % SeqSpan
        v1 == [v EXCEPT !.mintedTokens[issuer] = nextTokenSeq]
        ownerCountBefore == v1.ownerCount[account]
        r == insertToken(v1, account, createTokenID(flags, fee, issuer, taxon, tokenSeq))
        ownerCountAfter == r.v.ownerCount[account]
    IN
    IF nextTokenSeq < tokenSeq THEN [ter |-> tecMAX_SEQUENCE_REACHED, v |-> v]
    ELSE IF r.ter = tesSUCCESS /\ ownerCountAfter > ownerCountBefore
            /\ xrp[account] < accountReserve(ownerCountAfter)
    THEN [ter |-> tecINSUFFICIENT_RESERVE, v |-> r.v]
    ELSE r

\* --------------------------------------------------------------- NFTokenBurn
NFTokenBurnPreclaim(account, tokenID, owner) ==
    IF ~findToken(View, owner, tokenID) THEN tecNO_ENTRY
    ELSE IF account = owner THEN tesSUCCESS
    ELSE IF (getFlags(tokenID) % 2) = 0 THEN tecNO_PERMISSION
    ELSE IF account # getIssuer(tokenID) /\ minter[getIssuer(tokenID)] # account
    THEN tecNO_PERMISSION
    ELSE tesSUCCESS

NFTokenBurnDoApply(v, tokenID, owner) ==
    LET r == removeToken(v, owner, tokenID)
        v1 == [r.v EXCEPT !.burnedTokens[getIssuer(tokenID)] = @ + 1]
        s == removeAllTokenOffers(v1, tokenID, TRUE)
        b == removeAllTokenOffers(s.v, tokenID, FALSE)
    IN
    IF r.ter # tesSUCCESS THEN r
    ELSE IF s.threw \/ b.threw THEN [ter |-> tefEXCEPTION, v |-> v]
    ELSE [ter |-> tesSUCCESS, v |-> b.v]

\* --------------------------------------------------------- NFTokenCreateOffer
accountHolds(v, account, issue) ==
    IF issue = xrpIssue THEN v.balance[account] ELSE v.iou[account]

\* hasExpired: an expiration that the close time of the parent ledger has reached
hasExpired(expiration) == expiration # NoExpiration /\ closeTime >= expiration

CreateOfferPreflight(account, amount, sell, owner, destination, expiration) ==
    IF amount < 0 \/ (amount = 0 /\ ~sell) THEN temBAD_AMOUNT
    ELSE IF expiration = 0 THEN temBAD_EXPIRATION
    ELSE IF sell /\ owner # NoAccount THEN temMALFORMED
    ELSE IF ~sell /\ (owner = NoAccount \/ owner = account) THEN temMALFORMED
    ELSE IF destination # NoAccount /\ (~sell \/ destination = account) THEN temMALFORMED
    ELSE tesSUCCESS

CreateOfferPreclaim(account, tokenID, amount, issue, sell, owner, expiration) ==
    IF ~findToken(View, IF sell THEN account ELSE owner, tokenID) THEN tecNO_ENTRY
    ELSE IF hasExpired(expiration) THEN tecEXPIRED
    ELSE IF (getFlags(tokenID) \div tfTransferable) % 2 = 0
            /\ getIssuer(tokenID) # account /\ minter[getIssuer(tokenID)] # account
    THEN tefNFTOKEN_IS_NOT_TRANSFERABLE
    ELSE IF ~sell /\ accountHolds(View, account, issue) < amount THEN tecUNFUNDED_OFFER
    ELSE tesSUCCESS

CreateOfferDoApply(v, account, tokenID, amount, issue, sell, destination, expiration) ==
    LET idx == v.offerSeq + 1
        offer == [owner |-> account, tokenID |-> tokenID, amount |-> amount,
                  issue |-> issue,
                  sell |-> sell, destination |-> destination,
                  expiration |-> expiration]
        v1 == [v EXCEPT
                !.offerSeq = idx,
                !.offers = [k \in (DOMAIN @) \cup {idx} |-> IF k = idx THEN offer ELSE @[k]],
                !.ownerDir[account] = @ \cup {idx},
                !.nftSells = IF sell THEN @ \cup {<<tokenID, idx>>} ELSE @,
                !.nftBuys = IF sell THEN @ ELSE @ \cup {<<tokenID, idx>>}]
    IN
    IF xrp[account] < accountReserve(v.ownerCount[account] + 1)
    THEN [ter |-> tecINSUFFICIENT_RESERVE, v |-> v]
    ELSE [ter |-> tesSUCCESS, v |-> adjustOwnerCount(v1, account, 1)]

\* --------------------------------------------------------- NFTokenAcceptOffer
AcceptOfferPreflight(buy, sell, brokerFee) ==
    IF buy = NoOffer /\ sell = NoOffer THEN temMALFORMED
    ELSE IF brokerFee # NoAmount /\ (buy = NoOffer \/ sell = NoOffer) THEN temMALFORMED
    ELSE IF brokerFee # NoAmount /\ brokerFee <= 0 THEN temMALFORMED
    ELSE tesSUCCESS

\* a faulty check that takes any offer in the ledger, expired or not
checkOffer_neverExpires(id) ==
    IF id # NoOffer /\ id \notin DOMAIN offers THEN tecOBJECT_NOT_FOUND
    ELSE tesSUCCESS

checkOffer(id) ==
    IF id # NoOffer /\ id \notin DOMAIN offers THEN tecOBJECT_NOT_FOUND
    ELSE IF id # NoOffer /\ hasExpired(offers[id].expiration) THEN tecEXPIRED
    ELSE tesSUCCESS

\* a faulty preclaim that does not hold the sell amount against what is left
\* of the buy amount after the broker fee
brokeredPreclaim_ignoresFee(bo, so, brokerFee, feeIssue) ==
    IF bo.tokenID # so.tokenID THEN tecBUY_SELL_MISMATCH
    ELSE IF bo.issue # so.issue THEN tecBUY_SELL_MISMATCH
    ELSE IF so.amount > bo.amount THEN tecINSUFFICIENT_PAYMENT
    ELSE IF so.destination # NoAccount /\ so.destination # bo.owner
    THEN tecBUY_SELL_MISMATCH
    ELSE IF brokerFee # NoAmount /\ feeIssue # bo.issue THEN tecBUY_SELL_MISMATCH
    ELSE IF brokerFee # NoAmount /\ brokerFee >= bo.amount THEN tecINSUFFICIENT_PAYMENT
    ELSE tesSUCCESS

\* a faulty preclaim that brokers offers in different assets
brokeredPreclaim_anyAsset(bo, so, brokerFee, feeIssue) ==
    IF bo.tokenID # so.tokenID THEN tecBUY_SELL_MISMATCH
    ELSE IF so.amount > bo.amount THEN tecINSUFFICIENT_PAYMENT
    ELSE IF so.destination # NoAccount /\ so.destination # bo.owner
    THEN tecBUY_SELL_MISMATCH
    ELSE IF brokerFee # NoAmount /\ feeIssue # bo.issue THEN tecBUY_SELL_MISMATCH
    ELSE IF brokerFee # NoAmount /\ brokerFee >= bo.amount THEN tecINSUFFICIENT_PAYMENT
    ELSE IF brokerFee # NoAmount /\ so.amount > bo.amount - brokerFee
    THEN tecINSUFFICIENT_PAYMENT
    ELSE tesSUCCESS

\* a faulty preclaim that holds the sell amount against the buy amount only
\* when there is a broker fee
brokeredPreclaim_anyPrice(bo, so, brokerFee, feeIssue) ==
    IF bo.tokenID # so.tokenID THEN tecBUY_SELL_MISMATCH
    ELSE IF bo.issue # so.issue THEN tecBUY_SELL_MISMATCH
    ELSE IF so.destination # NoAccount /\ so.destination # bo.owner
    THEN tecBUY_SELL_MISMATCH
    ELSE IF brokerFee # NoAmount /\ feeIssue # bo.issue THEN tecBUY_SELL_MISMATCH
    ELSE IF brokerFee # NoAmount /\ brokerFee >= bo.amount THEN tecINSUFFICIENT_PAYMENT
    ELSE IF brokerFee # NoAmount /\ so.amount > bo.amount - brokerFee
    THEN tecINSUFFICIENT_PAYMENT
    ELSE tesSUCCESS

brokeredPreclaim(bo, so, brokerFee, feeIssue) ==
    IF bo.tokenID # so.tokenID THEN tecBUY_SELL_MISMATCH
    ELSE IF bo.issue # so.issue THEN tecBUY_SELL_MISMATCH
    ELSE IF so.amount > bo.amount THEN tecINSUFFICIENT_PAYMENT
    ELSE IF so.destination # NoAccount /\ so.destination # bo.owner
    THEN tecBUY_SELL_MISMATCH
    ELSE IF brokerFee # NoAmount /\ feeIssue # bo.issue THEN tecBUY_SELL_MISMATCH
    ELSE IF brokerFee # NoAmount /\ brokerFee >= bo.amount THEN tecINSUFFICIENT_PAYMENT
    ELSE IF brokerFee # NoAmount /\ so.amount > bo.amount - brokerFee
    THEN tecINSUFFICIENT_PAYMENT
    ELSE tesSUCCESS

\* a faulty preclaim that takes the buyer's funds for granted
buyPreclaim_trustsBuyer(account, bo, sell) ==
    IF bo.sell THEN tecOFFER_TYPE_MISMATCH
    ELSE IF bo.owner = account THEN tecCANT_ACCEPT_OWN_OFFER
    ELSE IF sell = NoOffer /\ ~findToken(View, account, bo.tokenID) THEN tecNO_PERMISSION
    ELSE tesSUCCESS

buyPreclaim(account, bo, sell) ==
    IF bo.sell THEN tecOFFER_TYPE_MISMATCH
    ELSE IF bo.owner = account THEN tecCANT_ACCEPT_OWN_OFFER
    ELSE IF sell = NoOffer /\ ~findToken(View, account, bo.tokenID) THEN tecNO_PERMISSION
    ELSE IF accountHolds(View, bo.owner, bo.issue) < bo.amount THEN tecINSUFFICIENT_FUNDS
    ELSE tesSUCCESS

\* a faulty preclaim that lets anyone take an offer made to one account
sellPreclaim_anyDestination(account, so, buy) ==
    IF ~so.sell THEN tecOFFER_TYPE_MISMATCH
    ELSE IF so.owner = account THEN tecCANT_ACCEPT_OWN_OFFER
    ELSE IF ~findToken(View, so.owner, so.tokenID) THEN tecNO_PERMISSION
    ELSE IF accountHolds(View, account, so.issue) < so.amount THEN tecINSUFFICIENT_FUNDS
    ELSE tesSUCCESS

sellPreclaim(account, so, buy) ==
    IF ~so.sell THEN tecOFFER_TYPE_MISMATCH
    ELSE IF so.owner = account THEN tecCANT_ACCEPT_OWN_OFFER
    ELSE IF ~findToken(View, so.owner, so.tokenID) THEN tecNO_PERMISSION
    ELSE IF buy = NoOffer /\ so.destination # NoAccount /\ so.destination # account
    THEN tecNO_PERMISSION
    ELSE IF accountHolds(View, account, so.issue) < so.amount THEN tecINSUFFICIENT_FUNDS
    ELSE tesSUCCESS

AcceptOfferPreclaim(account, buy, sell, brokerFee, feeIssue) ==
    IF checkOffer(buy) # tesSUCCESS THEN checkOffer(buy)
    ELSE IF checkOffer(sell) # tesSUCCESS THEN checkOffer(sell)
    ELSE IF buy # NoOffer /\ sell # NoOffer
            /\ brokeredPreclaim(offers[buy], offers[sell], brokerFee, feeIssue) # tesSUCCESS
    THEN brokeredPreclaim(offers[buy], offers[sell], brokerFee, feeIssue)
    ELSE IF buy # NoOffer /\ buyPreclaim(account, offers[buy], sell) # tesSUCCESS
    THEN buyPreclaim(account, offers[buy], sell)
    ELSE IF sell # NoOffer THEN sellPreclaim(account, offers[sell], buy)
    ELSE tesSUCCESS

\* accountSend: nothing to do for a zero amount or a payment to oneself
accountSend(v, from, to, amount, issue) ==
    IF amount = 0 \/ from = to THEN [ter |-> tesSUCCESS, v |-> v]
    ELSE IF accountHolds(v, from, issue) < amount
    THEN [ter |-> tecFAILED_PROCESSING, v |-> v]
    ELSE IF issue = xrpIssue
    THEN [ter |-> tesSUCCESS,
          v |-> [v EXCEPT !.balance[from] = @ - amount, !.balance[to] = @ + amount]]
    ELSE [ter |-> tesSUCCESS,
          v |-> [v EXCEPT !.iou[from] = @ - amount, !.iou[to] = @ + amount]]

\* a faulty pay that credits the receiver and gives the payer its money back
pay_refundsPayer(v, from, to, amount, issue) ==
    LET r == accountSend(v, from, to, amount, issue)
    IN
    IF amount < 0 THEN [ter |-> tecINTERNAL, v |-> v]
    ELSE IF r.ter = tesSUCCESS /\ issue = xrpIssue /\ from # to
    THEN [ter |-> tesSUCCESS, v |-> [r.v EXCEPT !.balance[from] = @ + amount]]
    ELSE r

pay(v, from, to, amount, issue) ==
    IF amount < 0 THEN [ter |-> tecINTERNAL, v |-> v]
    ELSE accountSend(v, from, to, amount, issue)

\* multiply(amount, transferFeeAsRate(fee))
transferFeeCut(amount, fee) == (amount * fee) \div 100000

\* a faulty transfer that leaves the token with the seller
transferToken_keepsCopy(v, seller, buyer, tokenID) ==
    IF ~findToken(v, seller, tokenID) THEN [ter |-> tecINTERNAL, v |-> v]
    ELSE insertToken(v, buyer, tokenID)

\* a faulty transfer that reports a failed insertion as tecINTERNAL
transferToken_hidesInsertion(v, seller, buyer, tokenID) ==
    LET rem == removeToken(v, seller, tokenID)
        ins == insertToken(rem.v, buyer, tokenID)
    IN
    IF ~findToken(v, seller, tokenID) THEN [ter |-> tecINTERNAL, v |-> v]
    ELSE IF rem.ter # tesSUCCESS THEN rem
    ELSE IF ins.ter # tesSUCCESS THEN [ter |-> tecINTERNAL, v |-> ins.v]
    ELSE ins

\* the transfer of the token that ends both modes of the settlement
transferToken(v, seller, buyer, tokenID) ==
    LET rem == removeToken(v, seller, tokenID)
    IN
    IF ~findToken(v, seller, tokenID) THEN [ter |-> tecINTERNAL, v |-> v]
    ELSE IF rem.ter # tesSUCCESS THEN rem
    ELSE insertToken(rem.v, buyer, tokenID)

\* a faulty acceptOffer that takes the issuer's cut even when the issuer is
\* the buyer or the seller
acceptOffer_cutsIssuerSales(v, account, offer) ==
    LET seller == IF offer.sell THEN offer.owner ELSE account
        buyer == IF offer.sell THEN account ELSE offer.owner
        tokenID == offer.tokenID
        amount == offer.amount
        fee == getTransferFee(tokenID)
        cut == transferFeeCut(amount, fee)
        issuer == getIssuer(tokenID)
        paysIssuer == amount # 0 /\ fee # 0 /\ cut # 0
        p1 == IF paysIssuer THEN pay(v, buyer, issuer, cut, offer.issue)
              ELSE [ter |-> tesSUCCESS, v |-> v]
        rest == IF paysIssuer THEN amount - cut ELSE amount
        p2 == IF amount # 0 THEN pay(p1.v, buyer, seller, rest, offer.issue) ELSE p1
    IN
    IF p1.ter # tesSUCCESS THEN p1
    ELSE IF p2.ter # tesSUCCESS THEN p2
    ELSE transferToken(p2.v, seller, buyer, tokenID)

\* a faulty acceptOffer that moves the token without any payment
acceptOffer_neverPays(v, account, offer) ==
    transferToken(v,
                  IF offer.sell THEN offer.owner ELSE account,
                  IF offer.sell THEN account ELSE offer.owner,
                  offer.tokenID)

\* a faulty acceptOffer that moves the token before it makes the payments
acceptOffer_movesFirst(v, account, offer) ==
    LET seller == IF offer.sell THEN offer.owner ELSE account
        buyer == IF offer.sell THEN account ELSE offer.owner
        tokenID == offer.tokenID
        amount == offer.amount
        fee == getTransferFee(tokenID)
        cut == transferFeeCut(amount, fee)
        issuer == getIssuer(tokenID)
        paysIssuer == amount # 0 /\ fee # 0 /\ cut # 0 /\ seller # issuer /\ buyer # issuer
        moved == transferToken(v, seller, buyer, tokenID)
        p1 == IF paysIssuer THEN pay(moved.v, buyer, issuer, cut, offer.issue)
              ELSE [ter |-> tesSUCCESS, v |-> moved.v]
        rest == IF paysIssuer THEN amount - cut ELSE amount
        p2 == IF amount # 0 THEN pay(p1.v, buyer, seller, rest, offer.issue) ELSE p1
    IN
    IF moved.ter # tesSUCCESS THEN moved
    ELSE IF p1.ter # tesSUCCESS THEN p1
    ELSE p2

\* NFTokenAcceptOffer::acceptOffer, on the view left by the deletion of the offer
acceptOffer(v, account, offer) ==
    LET seller == IF offer.sell THEN offer.owner ELSE account
        buyer == IF offer.sell THEN account ELSE offer.owner
        tokenID == offer.tokenID
        amount == offer.amount
        fee == getTransferFee(tokenID)
        cut == transferFeeCut(amount, fee)
        issuer == getIssuer(tokenID)
        paysIssuer == amount # 0 /\ fee # 0 /\ cut # 0 /\ seller # issuer /\ buyer # issuer
        p1 == IF paysIssuer THEN pay(v, buyer, issuer, cut, offer.issue)
              ELSE [ter |-> tesSUCCESS, v |-> v]
        rest == IF paysIssuer THEN amount - cut ELSE amount
        p2 == IF amount # 0 THEN pay(p1.v, buyer, seller, rest, offer.issue) ELSE p1
    IN
    IF p1.ter # tesSUCCESS THEN p1
    ELSE IF p2.ter # tesSUCCESS THEN p2
    ELSE transferToken(p2.v, seller, buyer, tokenID)

\* a faulty brokered settlement that takes the issuer's cut of the whole
\* amount the buyer pays
brokeredAccept_cutOfWhole(v, account, bo, so, brokerFee, feeIssue) ==
    LET buyer == bo.owner
        seller == so.owner
        tokenID == so.tokenID
        paysBroker == brokerFee # NoAmount /\ brokerFee # 0
        p1 == IF paysBroker THEN pay(v, buyer, account, brokerFee, feeIssue)
              ELSE [ter |-> tesSUCCESS, v |-> v]
        amount1 == IF paysBroker THEN bo.amount - brokerFee ELSE bo.amount
        fee == getTransferFee(tokenID)
        cut == transferFeeCut(bo.amount, fee)
        issuer == getIssuer(tokenID)
        paysIssuer == amount1 # 0 /\ fee # 0 /\ seller # issuer /\ buyer # issuer
        p2 == IF paysIssuer THEN pay(p1.v, buyer, issuer, cut, bo.issue) ELSE p1
        amount2 == IF paysIssuer THEN amount1 - cut ELSE amount1
        p3 == IF amount2 > 0 THEN pay(p2.v, buyer, seller, amount2, bo.issue) ELSE p2
    IN
    IF p1.ter # tesSUCCESS THEN p1
    ELSE IF p2.ter # tesSUCCESS THEN p2
    ELSE IF p3.ter # tesSUCCESS THEN p3
    ELSE transferToken(p3.v, seller, buyer, tokenID)

\* the brokered branch of NFTokenAcceptOffer::doApply, on the view left by the
\* deletion of both offers
brokeredAccept(v, account, bo, so, brokerFee, feeIssue) ==
    LET buyer == bo.owner
        seller == so.owner
        tokenID == so.tokenID
        paysBroker == brokerFee # NoAmount /\ brokerFee # 0
        p1 == IF paysBroker THEN pay(v, buyer, account, brokerFee, feeIssue)
              ELSE [ter |-> tesSUCCESS, v |-> v]
        amount1 == IF paysBroker THEN bo.amount - brokerFee ELSE bo.amount
        fee == getTransferFee(tokenID)
        cut == transferFeeCut(amount1, fee)
        issuer == getIssuer(tokenID)
        paysIssuer == amount1 # 0 /\ fee # 0 /\ seller # issuer /\ buyer # issuer
        p2 == IF paysIssuer THEN pay(p1.v, buyer, issuer, cut, bo.issue) ELSE p1
        amount2 == IF paysIssuer THEN amount1 - cut ELSE amount1
        p3 == IF amount2 > 0 THEN pay(p2.v, buyer, seller, amount2, bo.issue) ELSE p2
    IN
    IF p1.ter # tesSUCCESS THEN p1
    ELSE IF p2.ter # tesSUCCESS THEN p2
    ELSE IF p3.ter # tesSUCCESS THEN p3
    ELSE transferToken(p3.v, seller, buyer, tokenID)

\* a faulty doApply that takes every offer out of the ledger with the ones it
\* settles
AcceptOfferDoApply_dropsAll(v, account, buy, sell, brokerFee, feeIssue) ==
    LET hasBo == buy # NoOffer /\ buy \in DOMAIN v.offers
        hasSo == sell # NoOffer /\ sell \in DOMAIN v.offers
        d1 == IF hasBo THEN deleteTokenOffer(v, buy) ELSE [ok |-> TRUE, v |-> v]
        d2 == IF hasSo THEN deleteTokenOffer(d1.v, sell) ELSE d1
        r == IF hasBo /\ hasSo
             THEN brokeredAccept(d2.v, account, v.offers[buy], v.offers[sell], brokerFee,
                                 feeIssue)
             ELSE IF hasBo THEN acceptOffer(d2.v, account, v.offers[buy])
             ELSE IF hasSo THEN acceptOffer(d2.v, account, v.offers[sell])
             ELSE [ter |-> tecINTERNAL, v |-> d2.v]
    IN
    IF ~d1.ok THEN [ter |-> tecINTERNAL, v |-> d1.v]
    ELSE IF ~d2.ok THEN [ter |-> tecINTERNAL, v |-> d2.v]
    ELSE [ter |-> r.ter, v |-> [r.v EXCEPT !.offers = << >>]]

AcceptOfferDoApply(v, account, buy, sell, brokerFee, feeIssue) ==
    LET hasBo == buy # NoOffer /\ buy \in DOMAIN v.offers
        hasSo == sell # NoOffer /\ sell \in DOMAIN v.offers
        d1 == IF hasBo THEN deleteTokenOffer(v, buy) ELSE [ok |-> TRUE, v |-> v]
        d2 == IF hasSo THEN deleteTokenOffer(d1.v, sell) ELSE d1
    IN
    IF ~d1.ok THEN [ter |-> tecINTERNAL, v |-> d1.v]
    ELSE IF ~d2.ok THEN [ter |-> tecINTERNAL, v |-> d2.v]
    ELSE IF hasBo /\ hasSo
    THEN brokeredAccept(d2.v, account, v.offers[buy], v.offers[sell], brokerFee, feeIssue)
    ELSE IF hasBo THEN acceptOffer(d2.v, account, v.offers[buy])
    ELSE IF hasSo THEN acceptOffer(d2.v, account, v.offers[sell])
    ELSE [ter |-> tecINTERNAL, v |-> d2.v]

\* ------------------------------------------------- what a directory holds
Range(s) == {s[i] : i \in 1 .. Len(s)}
tokensOnPage(owner, key) == Range(pages[owner][key].tokens)
tokensOf(owner) == UNION {tokensOnPage(owner, k) : k \in DOMAIN pages[owner]}
RECURSIVE SumOver(_, _)
SumOver(S, f) ==
    IF S = {} THEN 0
    ELSE LET x == CHOOSE y \in S : TRUE IN f[x] + SumOver(S \ {x}, f)
nftCount(owner) ==
    SumOver(DOMAIN pages[owner], [k \in DOMAIN pages[owner] |-> Len(pages[owner][k].tokens)])

\* --------------------------------------------------------- initial state
NoOp == [op |-> "none", ter |-> tesSUCCESS]

Init ==
    /\ pages = [a \in Accounts |-> << >>]
    /\ ownerCount = [a \in Accounts |-> 0]
    /\ mintedTokens = [a \in Accounts |-> 0]
    /\ burnedTokens = [a \in Accounts |-> 0]
    /\ minter = [a \in Accounts |-> IF a = 0 THEN 1 ELSE NoAccount]
    /\ xrp = [a \in Accounts |-> accountReserve(NumAccounts - 1 - a)]
    /\ balance = [a \in Accounts |-> InitBalance]
    /\ iou = [a \in Accounts |-> InitBalance]
    /\ offers = << >>
    /\ ownerDir = [a \in Accounts |-> {}]
    /\ nftBuys = {}
    /\ nftSells = {}
    /\ offerSeq = 0
    /\ closeTime = 0
    /\ live = {}
    /\ last = NoOp

\* ----------------------------------------------- the directory harness
\* insertToken and removeToken called directly on the directory of one owner
\* with identifiers that Mint can produce
DirOwner == 0

DirTokens ==
    {createTokenID(tfTransferable, 0, i, 0, s) : i \in Accounts, s \in 0 .. (SeqSpan - 2)}

\* the step of a direct call whose result is r
called(op, r, liveAfter) ==
    /\ pages' = r.v.pages
    /\ ownerCount' = r.v.ownerCount
    /\ live' = IF r.ter = tesSUCCESS THEN liveAfter ELSE live
    /\ last' = [op |-> op, ter |-> r.ter]
    /\ UNCHANGED <<mintedTokens, burnedTokens, minter, xrp, balance, iou, offers,
                   ownerDir, nftBuys, nftSells, offerSeq, closeTime>>

InsertTokenOp(id) ==
    /\ id \notin tokensOf(DirOwner)
    /\ nftCount(DirOwner) < MaxHeld
    /\ called("insertToken", insertToken(View, DirOwner, id), live \cup {id})

RemoveTokenOp(id) ==
    called("removeToken", removeToken(View, DirOwner, id), live \ {id})

DirInsert == \E id \in DirTokens : InsertTokenOp(id)
DirRemove == \E id \in DirTokens : RemoveTokenOp(id)

NextDir == DirInsert \/ DirRemove

SpecDir == Init /\ [][NextDir]_vars

\* ------------------------------------------------------ the transactions
\* the values the transactions are submitted with
MintIssuers == Accounts \cup {NoAccount}
MintFees == {maxTransferFee}
MintTaxons == {0}
OfferAmounts == {0, 1000}
OfferDestinations == {NoAccount}
OfferExpirations == {NoExpiration}
OfferIds == (1 .. MaxOffers) \cup {NoOffer}
BrokerFees == {NoAmount, 100}

allTokens == UNION {tokensOf(a) : a \in Accounts}
totalMinted == SumOver(Accounts, mintedTokens)

\* the step of a transaction whose result is r: the ledger after it, the
\* tokens that then exist, and the record of the outcome
applied(op, r, liveAfter) ==
    /\ commit(r)
    /\ live' = IF r.ter = tesSUCCESS THEN liveAfter ELSE live
    /\ last' = [op |-> op, ter |-> r.ter]

\* the bound on mints stops the successful ones; a mint that finds the
\* issuer's sequence exhausted is always let through
submitMint(account, issuerField, fee, taxon) ==
    LET issuer == IF issuerField = NoAccount THEN account ELSE issuerField
    IN  applied("NFTokenMint",
                stages(MintPreflight(account, issuerField, fee),
                       MintPreclaim(account, issuerField),
                       MintDoApply(View, account, issuerField, tfTransferable, fee, taxon)),
                live \cup {createTokenID(tfTransferable, fee, issuer, taxon,
                                         mintedTokens[issuer])})

NFTokenMint(account, issuerField, fee, taxon) ==
    LET issuer == IF issuerField = NoAccount THEN account ELSE issuerField
    IN  /\ totalMinted < MaxMints \/ mintedTokens[issuer] = SeqSpan - 1
        /\ submitMint(account, issuerField, fee, taxon)

NFTokenBurn(account, tokenID, owner) ==
    applied("NFTokenBurn",
            stages(tesSUCCESS,
                   NFTokenBurnPreclaim(account, tokenID, owner),
                   NFTokenBurnDoApply(View, tokenID, owner)),
            live \ {tokenID})

NFTokenCreateOffer(account, tokenID, amount, issue, sell, owner, destination, expiration) ==
    /\ offerSeq < MaxOffers
    /\ applied("NFTokenCreateOffer",
               stages(CreateOfferPreflight(account, amount, sell, owner, destination,
                                           expiration),
                      CreateOfferPreclaim(account, tokenID, amount, issue, sell, owner,
                                          expiration),
                      CreateOfferDoApply(View, account, tokenID, amount, issue, sell,
                                         destination, expiration)),
               live)

\* the transaction with its broker fee, when it has one, in the asset feeIssue
brokerOffers(account, buy, sell, brokerFee, feeIssue) ==
    applied("NFTokenAcceptOffer",
            stages(AcceptOfferPreflight(buy, sell, brokerFee),
                   AcceptOfferPreclaim(account, buy, sell, brokerFee, feeIssue),
                   AcceptOfferDoApply(View, account, buy, sell, brokerFee, feeIssue)),
            live)

\* the transaction with its broker fee, when it has one, in the native asset
NFTokenAcceptOffer(account, buy, sell, brokerFee) ==
    brokerOffers(account, buy, sell, brokerFee, xrpIssue)

TxMint ==
    \E account \in Accounts, issuerField \in MintIssuers, fee \in MintFees,
       taxon \in MintTaxons :
        NFTokenMint(account, issuerField, fee, taxon)

TxBurn ==
    \E account \in Accounts, tokenID \in allTokens, owner \in Accounts :
        NFTokenBurn(account, tokenID, owner)

TxCreateOffer ==
    \E account \in Accounts, tokenID \in allTokens, amount \in OfferAmounts,
       sell \in BOOLEAN, owner \in Accounts \cup {NoAccount},
       destination \in OfferDestinations, expiration \in OfferExpirations :
        NFTokenCreateOffer(account, tokenID, amount, xrpIssue, sell, owner, destination,
                           expiration)

TxAcceptOffer ==
    \E account \in Accounts, buy \in OfferIds, sell \in OfferIds,
       brokerFee \in BrokerFees :
        NFTokenAcceptOffer(account, buy, sell, brokerFee)

NextTx == TxMint \/ TxBurn \/ TxCreateOffer \/ TxAcceptOffer

SpecTx == Init /\ [][NextTx]_vars

\* ------------------------------------------------- the settlement scenarios
\* offers on the tokens one authorized minter mints for the issuer, created
\* with the amounts, destinations and expirations the settlement rules tell
\* apart, and accepted in both modes while the ledger closes
SettleMints == 1
MaxClose == 1

SettleIssuer == 0
SettleMinter == 1
SettleFees == {0, maxTransferFee}
SettleCreators == {0, 1, 2}
SettleAmounts == {0, 1, 900, 1000}
SettleOwners == {NoAccount, SettleMinter}
SettleDestinations == {NoAccount, 2}
SettleExpirations == {NoExpiration, 1}
SettleBrokerFees == {NoAmount, 100, 101, 1000}

SettleMint ==
    \E fee \in SettleFees :
        /\ totalMinted < SettleMints
        /\ NFTokenMint(SettleMinter, SettleIssuer, fee, 0)

SettleCreateOffer ==
    \E account \in SettleCreators, tokenID \in allTokens, amount \in SettleAmounts,
       sell \in BOOLEAN, owner \in SettleOwners,
       destination \in SettleDestinations, expiration \in SettleExpirations :
        NFTokenCreateOffer(account, tokenID, amount, xrpIssue, sell, owner, destination,
                           expiration)

SettleAcceptOffer ==
    \E account \in Accounts, buy \in OfferIds, sell \in OfferIds,
       brokerFee \in SettleBrokerFees :
        NFTokenAcceptOffer(account, buy, sell, brokerFee)

\* the ledger closes: the close time the next transactions see moves on
LedgerClose ==
    /\ closeTime < MaxClose
    /\ closeTime' = closeTime + 1
    /\ last' = [op |-> "close", ter |-> tesSUCCESS]
    /\ UNCHANGED <<pages, ownerCount, mintedTokens, burnedTokens, minter, xrp,
                   balance, iou, offers, ownerDir, nftBuys, nftSells, offerSeq, live>>

NextSettle == SettleMint \/ SettleCreateOffer \/ SettleAcceptOffer \/ LedgerClose

SpecSettle == Init /\ [][NextSettle]_vars

\* ------------------------------------------------------ the minting runs
\* two issuers name one of two accounts as their authorized minter, and the
\* accounts mint until their pages fill up and split
MintSpan == 5

MintPrincipals == {0, 3}
MintAgents == {1, 2}

\* token::setMinter: the account names its authorized minter
setMinter(account, m) ==
    /\ m # account
    /\ minter' = [minter EXCEPT ![account] = m]
    /\ last' = [op |-> "AccountSet", ter |-> tesSUCCESS]
    /\ UNCHANGED <<pages, ownerCount, mintedTokens, burnedTokens, xrp, balance, iou,
                   offers, ownerDir, nftBuys, nftSells, offerSeq, closeTime, live>>

MintMore ==
    \E account \in Accounts, issuerField \in MintIssuers, fee \in MintFees,
       taxon \in MintTaxons :
        /\ totalMinted < MintSpan
        /\ submitMint(account, issuerField, fee, taxon)

MintSetMinter == \E account \in MintPrincipals, m \in MintAgents : setMinter(account, m)

\* an account identifier that no account root in the ledger has
NoSuchAccount == NumAccounts

\* a mint that names an issuer that does not exist
MintForUnknown ==
    \E account \in Accounts, fee \in MintFees, taxon \in MintTaxons :
        submitMint(account, NoSuchAccount, fee, taxon)

NextMint == MintMore \/ MintSetMinter \/ MintForUnknown

SpecMint == Init /\ [][NextMint]_vars

\* a holder fills a page with its own tokens and with those it mints for the
\* issuer that authorized it, and then trades with an account that holds the
\* tokens of a third issuer
MoveMints == 6

MoveSeller == 0
MoveBuyer == 1
MoveIssuer == 3
MoveMinters == {<<MoveBuyer, NoAccount>>, <<MoveBuyer, MoveSeller>>, <<MoveSeller, MoveIssuer>>}

MoveSetMinter == setMinter(MoveIssuer, MoveSeller)

MoveMint ==
    \E m \in MoveMinters, fee \in MintFees, taxon \in MintTaxons :
        /\ totalMinted < MoveMints
        /\ submitMint(m[1], m[2], fee, taxon)

MoveAmounts == {0, InitBalance}
MoveDestinations == {NoAccount, MoveBuyer, MoveIssuer}

\* the seller lists its tokens, for nothing or for all the buyer has, to
\* anyone or to one account; the buyer bids the full price
MoveCreateOffer ==
    \E tokenID \in tokensOf(MoveSeller), sell \in BOOLEAN, amount \in MoveAmounts,
       destination \in MoveDestinations :
        /\ ~sell => amount = InitBalance /\ destination = NoAccount
        /\ NFTokenCreateOffer(IF sell THEN MoveSeller ELSE MoveBuyer, tokenID,
                              amount, xrpIssue, sell,
                              IF sell THEN NoAccount ELSE MoveSeller,
                              destination, NoExpiration)

MoveAcceptOffer ==
    \E account \in {MoveSeller, MoveBuyer}, buy \in OfferIds, sell \in OfferIds :
        NFTokenAcceptOffer(account, buy, sell, NoAmount)

NextMove == MoveSetMinter \/ MoveMint \/ MoveCreateOffer \/ MoveAcceptOffer

SpecMove == Init /\ [][NextMove]_vars

\* a holder lists its tokens, a bidder bids for them, in either asset, and a
\* third account brokers the offers for a fee in either asset
BrokerMints == 2

BrokerSeller == 1
BrokerBuyer == 2
Broker == 0
BrokerAmounts == {900, 1000}
BrokerDestinations == {NoAccount, BrokerBuyer, 3}
BrokerFeeAmounts == {NoAmount, 100, 101, 1000}

BrokerMint ==
    /\ totalMinted < BrokerMints
    /\ submitMint(BrokerSeller, NoAccount, 0, 0)

BrokerCreateOffer ==
    \E tokenID \in tokensOf(BrokerSeller), sell \in BOOLEAN, amount \in BrokerAmounts,
       issue \in Issues, destination \in BrokerDestinations :
        /\ ~sell => destination = NoAccount
        /\ NFTokenCreateOffer(IF sell THEN BrokerSeller ELSE BrokerBuyer, tokenID,
                              amount, issue, sell,
                              IF sell THEN NoAccount ELSE BrokerSeller,
                              destination, NoExpiration)

BrokerAcceptOffer ==
    \E buy \in OfferIds, sell \in OfferIds, brokerFee \in BrokerFeeAmounts,
       feeIssue \in Issues :
        brokerOffers(Broker, buy, sell, brokerFee, feeIssue)

NextBroker == BrokerMint \/ BrokerCreateOffer \/ BrokerAcceptOffer

SpecBroker == Init /\ [][NextBroker]_vars

\* offers with and without an expiration are made for the tokens of one
\* holder and are accepted, alone or in pairs, before and after the ledger
\* closes
ExpireMints == 2

ExpireAmounts == {0, InitBalance}
ExpireExpirations == {NoExpiration, 1}

ExpireMint ==
    /\ totalMinted < ExpireMints
    /\ submitMint(BrokerSeller, NoAccount, 0, 0)

ExpireCreateOffer ==
    \E tokenID \in allTokens, sell \in BOOLEAN, amount \in ExpireAmounts,
       expiration \in ExpireExpirations :
        NFTokenCreateOffer(IF sell THEN BrokerSeller ELSE BrokerBuyer, tokenID,
                           amount, xrpIssue, sell,
                           IF sell THEN NoAccount ELSE BrokerSeller,
                           NoAccount, expiration)

ExpireAcceptOffer ==
    \E account \in {Broker, BrokerSeller, BrokerBuyer}, buy \in OfferIds,
       sell \in OfferIds :
        NFTokenAcceptOffer(account, buy, sell, NoAmount)

NextExpire == ExpireMint \/ ExpireCreateOffer \/ ExpireAcceptOffer \/ LedgerClose

SpecExpire == Init /\ [][NextExpire]_vars

\* a directory is filled with tokens whose identifiers differ above the
\* masked part only, as the tokens of issuers whose account identifiers agree
\* in their low 32 bits do; insertToken puts them there, as it does for a
\* token that is minted or received; the holder of one more such token
\* offers it for nothing and the holder of the full page accepts
PackHeld == 5

PackTokens ==
    {createTokenID(tfTransferable, fee, 0, 0, 0) : fee \in 0 .. (PackHeld - 1)}
        \cup {createTokenID(tfTransferable, 0, 1, 0, 0)}

\* the seller holds one token at a time
PackInsert ==
    \E owner \in {BrokerSeller, BrokerBuyer}, id \in PackTokens :
        /\ id \notin allTokens
        /\ nftCount(owner) < (IF owner = BrokerSeller THEN 1 ELSE PackHeld)
        /\ called("insertToken", insertToken(View, owner, id), live \cup {id})

PackCreateOffer ==
    \E tokenID \in tokensOf(BrokerSeller) :
        NFTokenCreateOffer(BrokerSeller, tokenID, 0, xrpIssue, TRUE, NoAccount,
                           NoAccount, NoExpiration)

PackAcceptOffer ==
    \E sell \in OfferIds : NFTokenAcceptOffer(BrokerBuyer, NoOffer, sell, NoAmount)

NextPack == PackInsert \/ PackCreateOffer \/ PackAcceptOffer

SpecPack == Init /\ [][NextPack]_vars

\* tokens are minted for an issuer with transfer fees up to and past the
\* largest one allowed, and are sold, directly and through a broker, for
\* nothing and for amounts that the fee does and does not divide
FeeMints == 1

FeeFees == {0, maxTransferFee, maxTransferFee + 1, FeeSpan - 1}
FeeAmounts == {0, 1, 999, 1000}
FeeBrokerFees == {NoAmount, 1, 100}

FeeMint ==
    \E fee \in FeeFees :
        /\ totalMinted < FeeMints
        /\ submitMint(SettleMinter, SettleIssuer, fee, 0)

FeeCreateOffer ==
    \E tokenID \in allTokens, sell \in BOOLEAN, amount \in FeeAmounts :
        NFTokenCreateOffer(IF sell THEN SettleMinter ELSE BrokerBuyer, tokenID,
                           amount, xrpIssue, sell,
                           IF sell THEN NoAccount ELSE SettleMinter,
                           NoAccount, NoExpiration)

FeeAcceptOffer ==
    \E account \in Accounts \ {SettleIssuer}, buy \in OfferIds, sell \in OfferIds,
       brokerFee \in FeeBrokerFees :
        NFTokenAcceptOffer(account, buy, sell, brokerFee)

NextFee == FeeMint \/ FeeCreateOffer \/ FeeAcceptOffer

SpecFee == Init /\ [][NextFee]_vars

\* three packed pages are generated as the burn test generates them: the
\* tokens are put into one directory in groups of half a page whose ranks in
\* storage order go 0, 2, 1, 4, 3, 5, so that every split is followed by the
\* tokens that fill the page split off; then the tokens are taken out again
\* one at a time, in any order
\* the token with the masked part low: the taxon handed to the mint is the
\* one whose ciphered form is the wanted one
tokenWithLow(low) ==
    createTokenID(tfTransferable, 0, low \div (TaxonSpan * SeqSpan),
                  cipheredTaxon(low % SeqSpan, (low \div SeqSpan) % TaxonSpan),
                  low % SeqSpan)

SequentialOrder == <<0, 1, 4, 5, 2, 3, 8, 9, 6, 7, 10, 11>>

SequentialFill ==
    /\ last.op \in {"none", "insertToken"}
    /\ nftCount(DirOwner) < Len(SequentialOrder)
    /\ called("insertToken",
              insertToken(View, DirOwner,
                          tokenWithLow(SequentialOrder[nftCount(DirOwner) + 1])),
              live \cup {tokenWithLow(SequentialOrder[nftCount(DirOwner) + 1])})

SequentialBurn ==
    \E id \in tokensOf(DirOwner) :
        /\ nftCount(DirOwner) = Len(SequentialOrder) \/ last.op = "removeToken"
        /\ called("removeToken", removeToken(View, DirOwner, id), live \ {id})

NextSequential == SequentialFill \/ SequentialBurn

SpecSequential == Init /\ [][NextSequential]_vars

\* ------------------------------------------------ the ordering scenario
\* one token with the largest transfer fee, issued by a fourth account, is
\* offered by its holder and bid for by a buyer whose directory is filled,
\* token by token, with tokens equivalent to it; the offers are accepted
\* directly or brokered
OrderToken == createTokenID(tfTransferable, maxTransferFee, MoveIssuer, 0, 0)
OrderFillers ==
    {createTokenID(tfTransferable, fee, MoveIssuer, 0, 0) :
        fee \in 0 .. (dirMaxTokensPerPage - 1)}
OrderAmounts == {0, 4}
OrderBrokerFees == {NoAmount, 2}

OrderInsert ==
    \/ /\ OrderToken \notin allTokens
       /\ called("insertToken", insertToken(View, BrokerSeller, OrderToken),
                 live \cup {OrderToken})
    \/ \E id \in OrderFillers \ allTokens :
          /\ \A other \in OrderFillers \ allTokens : id <= other
          /\ called("insertToken", insertToken(View, BrokerBuyer, id), live \cup {id})

OrderCreateOffer ==
    \E amount \in OrderAmounts, sell \in BOOLEAN :
        /\ OrderToken \in tokensOf(BrokerSeller)
        /\ NFTokenCreateOffer(IF sell THEN BrokerSeller ELSE BrokerBuyer, OrderToken,
                              amount, xrpIssue, sell,
                              IF sell THEN NoAccount ELSE BrokerSeller,
                              NoAccount, NoExpiration)

OrderAcceptOffer ==
    \E account \in {BrokerSeller, BrokerBuyer, Broker}, buy \in OfferIds,
       sell \in OfferIds, brokerFee \in OrderBrokerFees :
        NFTokenAcceptOffer(account, buy, sell, brokerFee)

NextOrder == OrderInsert \/ OrderCreateOffer \/ OrderAcceptOffer

SpecOrder == Init /\ [][NextOrder]_vars

\* -------------------------------------------------- the resale scenario
\* two traders list and bid for one token that changes hands between them,
\* so that offers made while the other trader held it are still in the
\* ledger; the offers are accepted by a trader or brokered by a third account
ResaleOffers == 3

ResaleTraders == {MoveSeller, MoveBuyer}
ResaleOfferIds == (1 .. ResaleOffers) \cup {NoOffer}

ResaleInsert ==
    /\ last = NoOp
    /\ called("insertToken", insertToken(View, MoveBuyer, OrderToken), live \cup {OrderToken})

ResaleCreateOffer ==
    \E account \in ResaleTraders, amount \in OrderAmounts, sell \in BOOLEAN,
       owner \in ResaleTraders :
        /\ offerSeq < ResaleOffers
        /\ owner # account
        /\ applied("NFTokenCreateOffer",
                   stages(CreateOfferPreflight(account, amount, sell,
                                               IF sell THEN NoAccount ELSE owner,
                                               NoAccount, NoExpiration),
                          CreateOfferPreclaim(account, OrderToken, amount, xrpIssue, sell,
                                              IF sell THEN NoAccount ELSE owner,
                                              NoExpiration),
                          CreateOfferDoApply(View, account, OrderToken, amount, xrpIssue,
                                             sell, NoAccount, NoExpiration)),
                   live)

ResaleAcceptOffer ==
    \E account \in ResaleTraders \cup {BrokerBuyer}, buy \in ResaleOfferIds,
       sell \in ResaleOfferIds, brokerFee \in OrderBrokerFees :
        NFTokenAcceptOffer(account, buy, sell, brokerFee)

NextResale == ResaleInsert \/ ResaleCreateOffer \/ ResaleAcceptOffer

SpecResale == Init /\ [][NextResale]_vars

\* ------------------------------------------- the broker without funds
\* a holder lists two tokens, a bidder bids for them, and the third account
\* buys one of them for all it has before it brokers the offers for the other
PoorTokens == {createTokenID(tfTransferable, fee, MoveIssuer, 0, 0) : fee \in {0, maxTransferFee}}
PoorAmounts == {4, InitBalance}

PoorInsert ==
    \E id \in PoorTokens \ allTokens :
        /\ offerSeq = 0
        /\ called("insertToken", insertToken(View, BrokerSeller, id), live \cup {id})

PoorCreateOffer ==
    \E tokenID \in tokensOf(BrokerSeller), amount \in PoorAmounts, sell \in BOOLEAN :
        /\ offerSeq < ResaleOffers
        /\ ~sell => amount = 4
        /\ applied("NFTokenCreateOffer",
                   stages(CreateOfferPreflight(IF sell THEN BrokerSeller ELSE BrokerBuyer,
                                               amount, sell,
                                               IF sell THEN NoAccount ELSE BrokerSeller,
                                               NoAccount, NoExpiration),
                          CreateOfferPreclaim(IF sell THEN BrokerSeller ELSE BrokerBuyer,
                                              tokenID, amount, xrpIssue, sell,
                                              IF sell THEN NoAccount ELSE BrokerSeller,
                                              NoExpiration),
                          CreateOfferDoApply(View, IF sell THEN BrokerSeller ELSE BrokerBuyer,
                                             tokenID, amount, xrpIssue, sell, NoAccount,
                                             NoExpiration)),
                   live)

PoorAcceptOffer ==
    \E account \in {Broker, BrokerBuyer}, buy \in ResaleOfferIds, sell \in ResaleOfferIds,
       brokerFee \in OrderBrokerFees :
        NFTokenAcceptOffer(account, buy, sell, brokerFee)

NextPoor == PoorInsert \/ PoorCreateOffer \/ PoorAcceptOffer

SpecPoor == Init /\ [][NextPoor]_vars

\* ---------------------------------------------------- the churn harness
\* insertToken and removeToken called on the directory of one owner, in any
\* order, with one token for every low part an identifier can have
ChurnTokens == {tokenWithLow(low) : low \in 0 .. (PageSpan - 1)}

ChurnInsert ==
    \E id \in ChurnTokens \ tokensOf(DirOwner) :
        called("insertToken", insertToken(View, DirOwner, id), live \cup {id})

ChurnRemove ==
    \E id \in tokensOf(DirOwner) :
        called("removeToken", removeToken(View, DirOwner, id), live \ {id})

NextChurn == ChurnInsert \/ ChurnRemove

SpecChurn == Init /\ [][NextChurn]_vars

\* ------------------------------------------------------------- the claims
keysOf(owner) == DOMAIN pages[owner]
\* the pages of an owner that are next to each other in key order
adjacentKeys(owner) ==
    {pq \in keysOf(owner) \X keysOf(owner) :
        /\ pq[1] < pq[2]
        /\ ~ \E k \in keysOf(owner) : pq[1] < k /\ k < pq[2]}
\* every place <<account, page key, position>> a token is stored at
slots ==
    UNION {UNION {{<<a, k, i>> : i \in 1 .. Len(pages[a][k].tokens)} : k \in keysOf(a)} :
           a \in Accounts}
tokenAt(s) == pages[s[1]][s[2]].tokens[s[3]]
copies(t) == Cardinality({s \in slots : tokenAt(s) = t})
issued(issuer) == Cardinality({s \in slots : getIssuer(tokenAt(s)) = issuer})
offersOf(a) == {i \in DOMAIN offers : offers[i].owner = a}
ledger ==
    <<pages, ownerCount, mintedTokens, burnedTokens, minter, xrp, balance, iou, offers,
      ownerDir, nftBuys, nftSells, offerSeq, closeTime>>
amountIf(cond, amount) == IF cond THEN amount ELSE 0

\* C1: every token stored on a page of an owner is returned by
\* findToken(owner, tokenID), i.e. it is on the page the locate step selects
C1_StoredTokenIsFound ==
    \A o \in Accounts : \A t \in tokensOf(o) : findToken(View, o, t)

\* C2: every token minted and not burned is stored exactly once in the whole
\* ledger, and no other token is stored at all
C2_ExactlyOnce ==
    \A t \in live \cup allTokens : copies(t) = IF t \in live THEN 1 ELSE 0

\* a token changed hands after another token was burned
C2_Witness ==
    /\ last.op = "NFTokenAcceptOffer" /\ last.ter = tesSUCCESS
    /\ live # {}
    /\ \E a \in Accounts : burnedTokens[a] > 0

C4_BrokeredSplit ==
    [][\A account \in Accounts, buy \in 1 .. MaxOffers, sell \in 1 .. MaxOffers,
          brokerFee \in BrokerFees :
          (/\ last'.op = "NFTokenAcceptOffer"
           /\ last'.ter = tesSUCCESS
           /\ buy \in DOMAIN offers
           /\ sell \in DOMAIN offers
           /\ offers[buy].owner # getIssuer(offers[sell].tokenID)
           /\ offers[sell].owner # getIssuer(offers[sell].tokenID)
           /\ NFTokenAcceptOffer(account, buy, sell, brokerFee))
          =>
          LET B == offers[buy].amount
              F == IF brokerFee = NoAmount THEN 0 ELSE brokerFee
              t == getTransferFee(offers[sell].tokenID)
              cut == ((B - F) * t) \div 100000
              buyer == offers[buy].owner
              seller == offers[sell].owner
              issuer == getIssuer(offers[sell].tokenID)
          IN  balance' = [a \in Accounts |->
                            balance[a] - amountIf(a = buyer, B)
                                       + amountIf(a = account, F)
                                       + amountIf(a = issuer, cut)
                                       + amountIf(a = seller, B - F - cut)]]_vars

\* B = 1000, F = 100, t = 50000: issuer 0 and seller 1 got 450 each, buyer 2
\* paid 1000 and broker 3 got 100
C4_Witness ==
    /\ last.op = "NFTokenAcceptOffer" /\ last.ter = tesSUCCESS
    /\ balance = [a \in Accounts |->
                    CASE a = 0 -> InitBalance + 450
                      [] a = 1 -> InitBalance + 450
                      [] a = 2 -> InitBalance - 1000
                      [] a = 3 -> InitBalance + 100
                      [] OTHER -> InitBalance]

\* C5: the pages of an owner form one doubly-linked chain in ascending key
\* order; the lowest page has no prev and the highest page has no next
C5_ChainLinked ==
    \A o \in Accounts :
        /\ \A pq \in adjacentKeys(o) :
              /\ pages[o][pq[1]].next = pq[2]
              /\ pages[o][pq[2]].prev = pq[1]
        /\ \A k \in keysOf(o) :
              /\ (\A j \in keysOf(o) : k <= j) => pages[o][k].prev = NoKey
              /\ (\A j \in keysOf(o) : j <= k) => pages[o][k].next = NoKey

\* C6: no two pages of an owner hold tokens with equal page prefix
C6_EquivalentTogether ==
    \A o \in Accounts : \A k1 \in keysOf(o) : \A k2 \in keysOf(o) :
        k1 # k2 =>
            \A t1 \in tokensOnPage(o, k1) : \A t2 \in tokensOnPage(o, k2) :
                pageMask(t1) # pageMask(t2)

C8_MintedMinusBurned ==
    [][/\ \A issuer \in Accounts :
            mintedTokens'[issuer] - burnedTokens'[issuer] = issued(issuer)'
       /\ last'.op = "NFTokenMint" =>
            IF last'.ter = tesSUCCESS
            THEN \E t \in allTokens' \ allTokens :
                    mintedTokens' = [mintedTokens EXCEPT ![getIssuer(t)] = @ + 1]
            ELSE mintedTokens' = mintedTokens]_vars

\* account 1 minted a token of issuer 0 for which it is the minter
C8_Witness ==
    /\ last.op = "NFTokenMint" /\ last.ter = tesSUCCESS
    /\ mintedTokens[0] = 1 /\ mintedTokens[1] = 0
    /\ \E t \in tokensOf(1) : getIssuer(t) = 0

\* C9: every page holds between 1 and dirMaxTokensPerPage tokens, so an
\* account without tokens has no page
C9_PageSizes ==
    \A o \in Accounts :
        /\ \A k \in keysOf(o) :
              /\ Len(pages[o][k].tokens) >= 1
              /\ Len(pages[o][k].tokens) <= dirMaxTokensPerPage
        /\ (tokensOf(o) = {} => keysOf(o) = {})

\* after a removal a full page stands next to a page with a single token
C9_Witness ==
    /\ last.op = "removeToken" /\ last.ter = tesSUCCESS
    /\ \E k \in keysOf(DirOwner) : Len(pages[DirOwner][k].tokens) = dirMaxTokensPerPage
    /\ \E k \in keysOf(DirOwner) : Len(pages[DirOwner][k].tokens) = 1

\* C10: the tokens of every page are sorted ascending by page prefix, and
\* no token of a lower-keyed page has a larger prefix than a token of a
\* higher-keyed page
C10_Sorted ==
    \A o \in Accounts :
        /\ \A k \in keysOf(o) :
              \A i \in 1 .. (Len(pages[o][k].tokens) - 1) :
                  pageMask(pages[o][k].tokens[i]) <= pageMask(pages[o][k].tokens[i + 1])
        /\ \A k1 \in keysOf(o) : \A k2 \in keysOf(o) :
              k1 < k2 =>
                  \A t1 \in tokensOnPage(o, k1) : \A t2 \in tokensOnPage(o, k2) :
                      pageMask(t1) <= pageMask(t2)

\* three pages, one of them full, after an insertion
C10_Witness ==
    /\ Cardinality(keysOf(DirOwner)) = 3
    /\ \E k \in keysOf(DirOwner) : Len(pages[DirOwner][k].tokens) = dirMaxTokensPerPage
    /\ last.op = "insertToken" /\ last.ter = tesSUCCESS

\* C11: whenever a successful operation adds a page to an account's
\* directory and so raises its owner count, the account's balance is at
\* least the reserve for the new owner count
C11_ReserveAtPageCreation ==
    [][last'.ter = tesSUCCESS =>
        \A a \in Accounts :
            (/\ Cardinality(keysOf(a)') > Cardinality(keysOf(a))
             /\ ownerCount'[a] > ownerCount[a])
            => xrp[a] >= accountReserve(ownerCount'[a])]_vars

\* the insertion of id adds a page to the owner's directory: no page is
\* located for it, or the located page is full
addsPage(owner, id) ==
    LET key == locatePage(View, owner, id)
    IN  key = NoKey \/ Len(pages[owner][key].tokens) = dirMaxTokensPerPage

\* C12: a mint that raises the submitter's owner count succeeds only with a
\* balance of at least the reserve for the new count; a mint fails with
\* tecINSUFFICIENT_RESERVE only when it adds a page the balance does not
\* cover, and then it does fail; a mint into a page with room succeeds
\* whatever the balance
C12_MintReserve ==
    [][\A account \in Accounts, issuerField \in MintIssuers, fee \in MintFees,
          taxon \in MintTaxons :
          LET issuer == IF issuerField = NoAccount THEN account ELSE issuerField
              id == createTokenID(tfTransferable, fee, issuer, taxon, mintedTokens[issuer])
              passes == /\ MintPreflight(account, issuerField, fee) = tesSUCCESS
                        /\ MintPreclaim(account, issuerField) = tesSUCCESS
                        /\ mintedTokens[issuer] < SeqSpan - 1
              short == xrp[account] < accountReserve(ownerCount[account] + 1)
          IN  (/\ last'.op = "NFTokenMint"
               /\ passes \/ last'.ter \in {tesSUCCESS, tecINSUFFICIENT_RESERVE}
               /\ submitMint(account, issuerField, fee, taxon))
              =>
              /\ (last'.ter = tesSUCCESS /\ ownerCount'[account] > ownerCount[account])
                 => xrp[account] >= accountReserve(ownerCount'[account])
              /\ last'.ter = tecINSUFFICIENT_RESERVE
                 => (passes /\ addsPage(account, id) /\ short)
              /\ (passes /\ ~addsPage(account, id)) => last'.ter = tesSUCCESS
              /\ (passes /\ addsPage(account, id) /\ short)
                 => last'.ter \in {tecINSUFFICIENT_RESERVE, tecNO_SUITABLE_PAGE}]_vars

\* the only holder of tokens has one page with several tokens in it, minted
\* with a balance that does not cover one more object
C12_Witness ==
    /\ last.op = "NFTokenMint" /\ last.ter = tesSUCCESS
    /\ \E a \in Accounts :
          /\ Cardinality(keysOf(a)) = 1
          /\ nftCount(a) >= 2
          /\ xrp[a] < accountReserve(ownerCount[a] + 1)
          /\ \A b \in Accounts \ {a} : keysOf(b) = {}

\* C13: a successful direct accept of an offer with amount A moves cut =
\* (A * t) \div 100000 from the buyer to the issuer and A - cut to the seller
\* when A > 0, the transfer fee t is not zero, neither party is the issuer
\* and cut is not zero; otherwise the buyer pays all of A to the seller, and
\* nothing moves when A = 0
C13_DirectPayments ==
    [][\A account \in Accounts, id \in 1 .. MaxOffers :
          (/\ last'.op = "NFTokenAcceptOffer"
           /\ last'.ter = tesSUCCESS
           /\ id \in DOMAIN offers
           /\ NFTokenAcceptOffer(account,
                                 IF offers[id].sell THEN NoOffer ELSE id,
                                 IF offers[id].sell THEN id ELSE NoOffer,
                                 NoAmount))
          =>
          LET A == offers[id].amount
              buyer == IF offers[id].sell THEN account ELSE offers[id].owner
              seller == IF offers[id].sell THEN offers[id].owner ELSE account
              t == getTransferFee(offers[id].tokenID)
              issuer == getIssuer(offers[id].tokenID)
              cut == (A * t) \div 100000
              cuts == A > 0 /\ t # 0 /\ buyer # issuer /\ seller # issuer /\ cut # 0
          IN  balance' = [a \in Accounts |->
                            balance[a] - amountIf(a = buyer, A)
                                       + amountIf(a = issuer /\ cuts, cut)
                                       + amountIf(a = seller,
                                                  IF cuts THEN A - cut ELSE A)]]_vars

\* the only offer ever created, a sale for 1000 of a token with t = 50000 by
\* its minter, was accepted: issuer and seller got 500 each
C13_Witness ==
    /\ last.op = "NFTokenAcceptOffer" /\ last.ter = tesSUCCESS
    /\ offerSeq = 1
    /\ balance[SettleIssuer] = InitBalance + 500
    /\ balance[SettleMinter] = InitBalance + 500

\* what the issuer takes out of a brokered sale: its share of the amount left
\* after the broker fee, unless the issuer is the buyer or the seller
issuerCut(buy, sell, brokerFee) ==
    LET rest == offers[buy].amount - (IF brokerFee = NoAmount THEN 0 ELSE brokerFee)
        issuer == getIssuer(offers[sell].tokenID)
    IN  IF offers[buy].owner = issuer \/ offers[sell].owner = issuer THEN 0
        ELSE (rest * getTransferFee(offers[sell].tokenID)) \div 100000

\* C14, as stated: in every successful brokered accept the seller is paid at
\* least the amount of the sell offer
C14_SellerFloor ==
    [][\A account \in Accounts, buy \in 1 .. MaxOffers, sell \in 1 .. MaxOffers,
          brokerFee \in SettleBrokerFees :
          (/\ last'.op = "NFTokenAcceptOffer"
           /\ last'.ter = tesSUCCESS
           /\ buy \in DOMAIN offers
           /\ sell \in DOMAIN offers
           /\ offers[buy].owner # offers[sell].owner
           /\ NFTokenAcceptOffer(account, buy, sell, brokerFee))
          =>
          balance'[offers[sell].owner] - balance[offers[sell].owner]
              >= offers[sell].amount]_vars

\* C14, amended: in every successful brokered accept the seller is paid at
\* least the amount of the sell offer less the issuer's cut, which is all of
\* that amount when the issuer takes no cut
C14_SellerFloorBeforeCut ==
    [][\A account \in Accounts, buy \in 1 .. MaxOffers, sell \in 1 .. MaxOffers,
          brokerFee \in SettleBrokerFees :
          (/\ last'.op = "NFTokenAcceptOffer"
           /\ last'.ter = tesSUCCESS
           /\ buy \in DOMAIN offers
           /\ sell \in DOMAIN offers
           /\ offers[buy].owner # offers[sell].owner
           /\ NFTokenAcceptOffer(account, buy, sell, brokerFee))
          =>
          balance'[offers[sell].owner] - balance[offers[sell].owner]
              >= offers[sell].amount - issuerCut(buy, sell, brokerFee)]_vars

\* a broker took 100 out of the 1000 the buyer paid for a token without
\* transfer fee, and the seller got the other 900
C14_Witness ==
    /\ last.op = "NFTokenAcceptOffer" /\ last.ter = tesSUCCESS
    /\ \E broker \in Accounts \ {SettleIssuer, SettleMinter} :
          balance[broker] = InitBalance + 100
    /\ balance[SettleMinter] = InitBalance + 900
    /\ balance[SettleIssuer] = InitBalance

\* the offers a transaction names
referenced(buy, sell) == {buy, sell} \ {NoOffer}
\* whether findToken finds the token in the owner's directory after the step
foundAfter(owner, tokenID) == findToken([View EXCEPT !.pages = pages'], owner, tokenID)
\* whether offer idx has left the ledger after the step: the object, its
\* entry in its owner's directory and its entry in the token's buy or sell
\* directory
goneAfter(idx) ==
    /\ idx \notin DOMAIN offers'
    /\ idx \notin ownerDir'[offers[idx].owner]
    /\ <<offers[idx].tokenID, idx>> \notin
           (IF offers[idx].sell THEN nftSells' ELSE nftBuys')

\* C15: after a successful NFTokenAcceptOffer, in direct or in brokered
\* mode, the token is found in the buyer's directory and is in no other
\* account's directory; every offer the transaction names is erased, is out
\* of its owner's directory and out of the token's buy or sell directory,
\* and every account's owner count went down by one for each of its offers
\* so deleted (and moved with the number of its pages)
C15_TokenMovesOffersGo ==
    [][\A account \in Accounts, buy \in OfferIds, sell \in OfferIds,
          brokerFee \in SettleBrokerFees \cup BrokerFees :
          (/\ last'.op = "NFTokenAcceptOffer"
           /\ last'.ter = tesSUCCESS
           /\ NFTokenAcceptOffer(account, buy, sell, brokerFee))
          =>
          LET tokenID == offers[IF sell # NoOffer THEN sell ELSE buy].tokenID
              buyer == IF buy # NoOffer THEN offers[buy].owner ELSE account
          IN  /\ foundAfter(buyer, tokenID)
              /\ \A a \in Accounts \ {buyer} : tokenID \notin tokensOf(a)'
              /\ \A idx \in referenced(buy, sell) : goneAfter(idx)
              /\ \A a \in Accounts :
                    ownerCount'[a] - Cardinality(keysOf(a)')
                        = ownerCount[a] - Cardinality(keysOf(a))
                          - Cardinality({idx \in referenced(buy, sell) :
                                            offers[idx].owner = a})]_vars

\* the result codes in S whose condition holds
codesOf(S) == {c[2] : c \in {c \in S : c[1]}}
\* the positions of the list of <<condition, result code>> whose condition holds
holding(list) == {i \in 1 .. Len(list) : list[i][1]}
\* the result code of the first condition of the list that holds
firstCode(list) == list[SetMin(holding(list))][2]

\* C16: a NFTokenAcceptOffer that names only a buy offer (one that exists
\* and has not expired) fails and changes nothing in the ledger, with
\* tecOFFER_TYPE_MISMATCH when the offer is a sell offer, with
\* tecCANT_ACCEPT_OWN_OFFER when the submitter owns the offer, with
\* tecNO_PERMISSION when the submitter does not hold the token, and with
\* tecINSUFFICIENT_FUNDS when the offer's owner now holds less than the
\* amount of the offer: the result is the code of the first of these
\* conditions that holds
C16_BuyOfferRejections ==
    [][\A account \in Accounts, buy \in 1 .. MaxOffers :
          (/\ last'.op = "NFTokenAcceptOffer"
           /\ buy \in DOMAIN offers
           /\ ~hasExpired(offers[buy].expiration)
           /\ NFTokenAcceptOffer(account, buy, NoOffer, NoAmount))
          =>
          LET bo == offers[buy]
              causes == <<
                  <<bo.sell, tecOFFER_TYPE_MISMATCH>>,
                  <<bo.owner = account, tecCANT_ACCEPT_OWN_OFFER>>,
                  <<bo.tokenID \notin tokensOf(account), tecNO_PERMISSION>>,
                  <<balance[bo.owner] < bo.amount, tecINSUFFICIENT_FUNDS>> >>
          IN  holding(causes) # {}
              => last'.ter = firstCode(causes) /\ ledger' = ledger]_vars

\* there are buy offers only, and the holder of a token has just been
\* refused the offer of a buyer who was able to pay when it made the offer
\* and has spent the money since
C16_Witness ==
    /\ last.op = "NFTokenAcceptOffer" /\ last.ter = tecINSUFFICIENT_FUNDS
    /\ \A i \in DOMAIN offers : ~offers[i].sell
    /\ \E i \in DOMAIN offers :
          /\ balance[offers[i].owner] < offers[i].amount
          /\ \E a \in Accounts \ {offers[i].owner} : offers[i].tokenID \in tokensOf(a)

\* C17: a NFTokenAcceptOffer that names only a sell offer (one that exists
\* and has not expired) fails and changes nothing in the ledger, with
\* tecOFFER_TYPE_MISMATCH when the offer is a buy offer, with
\* tecCANT_ACCEPT_OWN_OFFER when the submitter owns the offer, with
\* tecNO_PERMISSION when the offer's owner no longer holds the token or the
\* offer names a destination that is not the submitter, and with
\* tecINSUFFICIENT_FUNDS when the submitter holds less than the amount of
\* the offer: the result is the code of the first of these conditions that
\* holds
C17_SellOfferRejections ==
    [][\A account \in Accounts, sell \in 1 .. MaxOffers :
          (/\ last'.op = "NFTokenAcceptOffer"
           /\ sell \in DOMAIN offers
           /\ ~hasExpired(offers[sell].expiration)
           /\ NFTokenAcceptOffer(account, NoOffer, sell, NoAmount))
          =>
          LET so == offers[sell]
              causes == <<
                  <<~so.sell, tecOFFER_TYPE_MISMATCH>>,
                  <<so.owner = account, tecCANT_ACCEPT_OWN_OFFER>>,
                  <<\/ so.tokenID \notin tokensOf(so.owner)
                    \/ so.destination \notin {NoAccount, account}, tecNO_PERMISSION>>,
                  <<balance[account] < so.amount, tecINSUFFICIENT_FUNDS>> >>
          IN  holding(causes) # {}
              => last'.ter = firstCode(causes) /\ ledger' = ledger]_vars

\* every offer in the ledger is a sell offer of the account that holds the
\* token, one of them is made to a third account, and an accept has just
\* been refused for lack of permission
C17_Witness ==
    /\ last.op = "NFTokenAcceptOffer" /\ last.ter = tecNO_PERMISSION
    /\ \A i \in DOMAIN offers :
          offers[i].sell /\ offers[i].tokenID \in tokensOf(offers[i].owner)
    /\ \E i \in DOMAIN offers : offers[i].destination = MoveIssuer

\* whether the brokered accept of buy offer bo and sell offer so with this
\* broker fee brings together what does not match
mismatched(bo, so, brokerFee, feeIssue) ==
    \/ bo.tokenID # so.tokenID
    \/ bo.issue # so.issue
    \/ so.destination \notin {NoAccount, bo.owner}
    \/ brokerFee # NoAmount /\ feeIssue # bo.issue
\* whether the buy offer does not pay for the sell offer and the broker fee
underpaid(bo, so, brokerFee) ==
    \/ so.amount > bo.amount
    \/ brokerFee # NoAmount /\ brokerFee >= bo.amount
    \/ brokerFee # NoAmount /\ so.amount > bo.amount - brokerFee

\* the offers are for one token and in one asset
comparable(bo, so) == bo.tokenID = so.tokenID /\ bo.issue = so.issue

\* C18: a brokered NFTokenAcceptOffer (of two offers that exist and have
\* not expired) fails with tecBUY_SELL_MISMATCH, and both offers stay in the
\* ledger, whenever the offers are for different tokens or in different
\* assets, the sell offer names a destination that is not the owner of the
\* buy offer, or the broker fee is in another asset than the buy offer
C18_BuySellMismatchAlways ==
    [][\A account \in {Broker}, buy \in 1 .. MaxOffers, sell \in 1 .. MaxOffers,
          brokerFee \in BrokerFeeAmounts, feeIssue \in Issues :
          (/\ last'.op = "NFTokenAcceptOffer"
           /\ buy \in DOMAIN offers /\ sell \in DOMAIN offers
           /\ ~hasExpired(offers[buy].expiration)
           /\ ~hasExpired(offers[sell].expiration)
           /\ mismatched(offers[buy], offers[sell], brokerFee, feeIssue)
           /\ brokerOffers(account, buy, sell, brokerFee, feeIssue))
          =>
          last'.ter = tecBUY_SELL_MISMATCH /\ ledger' = ledger]_vars

\* C18, amended: such an accept fails and both offers stay in the ledger;
\* the result is tecBUY_SELL_MISMATCH, except that two offers for the same
\* token and in the same asset whose sell amount exceeds the buy amount are
\* refused with tecINSUFFICIENT_PAYMENT whatever the destination and the
\* asset of the broker fee
C18_BuySellMismatch ==
    [][\A account \in {Broker}, buy \in 1 .. MaxOffers, sell \in 1 .. MaxOffers,
          brokerFee \in BrokerFeeAmounts, feeIssue \in Issues :
          (/\ last'.op = "NFTokenAcceptOffer"
           /\ buy \in DOMAIN offers /\ sell \in DOMAIN offers
           /\ ~hasExpired(offers[buy].expiration)
           /\ ~hasExpired(offers[sell].expiration)
           /\ mismatched(offers[buy], offers[sell], brokerFee, feeIssue)
           /\ brokerOffers(account, buy, sell, brokerFee, feeIssue))
          =>
          /\ last'.ter = IF /\ comparable(offers[buy], offers[sell])
                            /\ offers[sell].amount > offers[buy].amount
                         THEN tecINSUFFICIENT_PAYMENT
                         ELSE tecBUY_SELL_MISMATCH
          /\ ledger' = ledger]_vars

\* a brokered accept has just failed with tecBUY_SELL_MISMATCH and left in
\* the ledger a buy offer and a sell offer for the same token and of equal
\* amount, in different assets
C18_Witness ==
    /\ last.op = "NFTokenAcceptOffer" /\ last.ter = tecBUY_SELL_MISMATCH
    /\ \E buy \in DOMAIN offers, sell \in DOMAIN offers :
          /\ ~offers[buy].sell /\ offers[sell].sell
          /\ offers[buy].tokenID = offers[sell].tokenID
          /\ offers[buy].amount = offers[sell].amount
          /\ offers[sell].destination = NoAccount
          /\ offers[buy].issue # offers[sell].issue

\* C19: a brokered NFTokenAcceptOffer (of two offers that exist and have
\* not expired) fails with tecINSUFFICIENT_PAYMENT whenever the sell amount
\* exceeds the buy amount, the broker fee is at least the buy amount, or the
\* sell amount exceeds the buy amount less the broker fee; a broker fee of
\* exactly the buy amount less the sell amount is let through
C19_InsufficientPaymentAlways ==
    [][\A account \in {Broker}, buy \in 1 .. MaxOffers, sell \in 1 .. MaxOffers,
          brokerFee \in BrokerFeeAmounts, feeIssue \in Issues :
          (/\ last'.op = "NFTokenAcceptOffer"
           /\ buy \in DOMAIN offers /\ sell \in DOMAIN offers
           /\ ~hasExpired(offers[buy].expiration)
           /\ ~hasExpired(offers[sell].expiration)
           /\ brokerOffers(account, buy, sell, brokerFee, feeIssue))
          =>
          /\ underpaid(offers[buy], offers[sell], brokerFee)
             => last'.ter = tecINSUFFICIENT_PAYMENT
          /\ brokerFee = offers[buy].amount - offers[sell].amount
             => last'.ter # tecINSUFFICIENT_PAYMENT]_vars

\* C19, amended: such an accept fails and changes nothing; the result is
\* tecINSUFFICIENT_PAYMENT when the offers are for the same token and in the
\* same asset and either the sell amount exceeds the buy amount or, the
\* destination and the asset of the broker fee being right, the broker fee
\* is too high; it is tecBUY_SELL_MISMATCH otherwise. A broker fee of
\* exactly the buy amount less the sell amount is let through
C19_InsufficientPayment ==
    [][\A account \in {Broker}, buy \in 1 .. MaxOffers, sell \in 1 .. MaxOffers,
          brokerFee \in BrokerFeeAmounts, feeIssue \in Issues :
          (/\ last'.op = "NFTokenAcceptOffer"
           /\ buy \in DOMAIN offers /\ sell \in DOMAIN offers
           /\ ~hasExpired(offers[buy].expiration)
           /\ ~hasExpired(offers[sell].expiration)
           /\ brokerOffers(account, buy, sell, brokerFee, feeIssue))
          =>
          LET bo == offers[buy]
              so == offers[sell]
          IN  /\ underpaid(bo, so, brokerFee)
                 => /\ last'.ter =
                          IF /\ comparable(bo, so)
                             /\ \/ so.amount > bo.amount
                                \/ ~mismatched(bo, so, brokerFee, feeIssue)
                          THEN tecINSUFFICIENT_PAYMENT
                          ELSE tecBUY_SELL_MISMATCH
                    /\ ledger' = ledger
              /\ brokerFee = bo.amount - so.amount
                 => last'.ter # tecINSUFFICIENT_PAYMENT]_vars

\* the broker has just taken the whole difference between a bid of 1000 and
\* a listing at 900 as its fee
C19_Witness ==
    /\ last.op = "NFTokenAcceptOffer" /\ last.ter = tesSUCCESS
    /\ \/ /\ balance[Broker] = InitBalance + 100
          /\ balance[BrokerSeller] = InitBalance + 900
          /\ balance[BrokerBuyer] = 0
       \/ /\ iou[Broker] = InitBalance + 100
          /\ iou[BrokerSeller] = InitBalance + 900
          /\ iou[BrokerBuyer] = 0

\* what is wrong with the offer a transaction names, tesSUCCESS when it
\* names none or one that is in the ledger and has not expired
offerState(id) ==
    IF id = NoOffer THEN tesSUCCESS
    ELSE IF id \notin DOMAIN offers THEN tecOBJECT_NOT_FOUND
    ELSE IF hasExpired(offers[id].expiration) THEN tecEXPIRED
    ELSE tesSUCCESS

\* C20: a NFTokenAcceptOffer, of one offer or of two, fails with
\* tecOBJECT_NOT_FOUND when an offer it names is not in the ledger and with
\* tecEXPIRED when the expiration of an offer it names has passed; the
\* refusal changes nothing, so that the expired offer is still in the
\* ledger and still counted for its owner
C20_MissingOrExpired ==
    [][\A account \in Accounts, buy \in OfferIds, sell \in OfferIds :
          (/\ last'.op = "NFTokenAcceptOffer"
           /\ buy # NoOffer \/ sell # NoOffer
           /\ NFTokenAcceptOffer(account, buy, sell, NoAmount))
          =>
          LET found == {offerState(buy), offerState(sell)}
          IN  /\ tecOBJECT_NOT_FOUND \in found => last'.ter = tecOBJECT_NOT_FOUND
              /\ tecEXPIRED \in found /\ tecOBJECT_NOT_FOUND \notin found
                 => last'.ter = tecEXPIRED
              /\ found # {tesSUCCESS} => ledger' = ledger]_vars

\* C20, amended: the offers are looked at in turn, the buy offer first, and
\* the result is what is wrong with the first one that is missing or has
\* expired: tecEXPIRED for an expired buy offer even when the sell offer is
\* missing
C20_FirstMissingOrExpired ==
    [][\A account \in Accounts, buy \in OfferIds, sell \in OfferIds :
          (/\ last'.op = "NFTokenAcceptOffer"
           /\ buy # NoOffer \/ sell # NoOffer
           /\ NFTokenAcceptOffer(account, buy, sell, NoAmount))
          =>
          LET first == IF offerState(buy) # tesSUCCESS THEN offerState(buy)
                       ELSE offerState(sell)
          IN  first # tesSUCCESS => last'.ter = first /\ ledger' = ledger]_vars

\* an accept has just been refused because of an offer whose expiration has
\* passed; the offer is in the ledger, in its owner's directory, and counted
C20_Witness ==
    /\ last.op = "NFTokenAcceptOffer" /\ last.ter = tecEXPIRED
    /\ \E id \in DOMAIN offers :
          /\ hasExpired(offers[id].expiration)
          /\ id \in ownerDir[offers[id].owner]
          /\ ownerCount[offers[id].owner] >= 1

\* the token move of a direct accept of sell offer sell by account: [found |->
\* findToken finds the token with the seller, rem |-> the result of its
\* removal, ins |-> the result of its insertion into the buyer's directory]
tokenMove(account, sell) ==
    LET seller == offers[sell].owner
        tokenID == offers[sell].tokenID
        rem == removeToken(View, seller, tokenID)
    IN  [found |-> findToken(View, seller, tokenID),
         rem |-> rem.ter,
         ins |-> insertToken(rem.v, account, tokenID).ter]

\* C21, as stated: when an accept reaches the move of the token and the
\* token is not found with the seller or its insertion into the buyer's
\* directory fails, the transaction returns tecINTERNAL
C21_MoveFailureIsInternal ==
    [][\A account \in {BrokerBuyer}, sell \in 1 .. MaxOffers :
          (/\ last'.op = "NFTokenAcceptOffer"
           /\ sell \in DOMAIN offers
           /\ AcceptOfferPreclaim(account, NoOffer, sell, NoAmount, xrpIssue) = tesSUCCESS
           /\ NFTokenAcceptOffer(account, NoOffer, sell, NoAmount)
           /\ \/ ~tokenMove(account, sell).found
              \/ /\ tokenMove(account, sell).rem = tesSUCCESS
                 /\ tokenMove(account, sell).ins # tesSUCCESS)
          => last'.ter = tecINTERNAL]_vars

\* C21, amended: the move of a token that findToken does not find with the
\* seller returns tecINTERNAL; when an accept reaches the move and the
\* insertion into the buyer's directory fails, the transaction returns the
\* result of the insertion, tecNO_SUITABLE_PAGE, and the ledger is as before
C21_MoveFailure ==
    [][/\ \A seller \in {BrokerSeller, BrokerBuyer}, buyer \in {BrokerSeller, BrokerBuyer},
             tokenID \in PackTokens :
             ~findToken(View, seller, tokenID)
                 => transferToken(View, seller, buyer, tokenID).ter = tecINTERNAL
       /\ \A account \in {BrokerBuyer}, sell \in 1 .. MaxOffers :
             (/\ last'.op = "NFTokenAcceptOffer"
              /\ sell \in DOMAIN offers
              /\ AcceptOfferPreclaim(account, NoOffer, sell, NoAmount, xrpIssue) = tesSUCCESS
              /\ NFTokenAcceptOffer(account, NoOffer, sell, NoAmount))
             =>
             /\ tokenMove(account, sell).found
             /\ tokenMove(account, sell).rem = tesSUCCESS
             /\ tokenMove(account, sell).ins # tesSUCCESS
                   => /\ last'.ter = tokenMove(account, sell).ins
                      /\ last'.ter = tecNO_SUITABLE_PAGE
                      /\ ledger' = ledger
             /\ tokenMove(account, sell).ins = tesSUCCESS
                   => last'.ter = tesSUCCESS]_vars

\* an accept was refused with tecNO_SUITABLE_PAGE: the buyer holds a full
\* page, the seller still holds the token and its offer is still there
C21_Witness ==
    /\ last.op = "NFTokenAcceptOffer" /\ last.ter = tecNO_SUITABLE_PAGE
    /\ nftCount(BrokerBuyer) = dirMaxTokensPerPage
    /\ \E i \in DOMAIN offers :
          /\ offers[i].tokenID \in tokensOf(BrokerSeller)
          /\ i \in ownerDir[BrokerSeller]

\* the page located for id in the owner's directory is full of tokens that
\* are all equivalent to id
fullOfEquivalents(owner, id) ==
    LET key == locatePage(View, owner, id)
    IN  /\ key # NoKey
        /\ Len(pages[owner][key].tokens) = dirMaxTokensPerPage
        /\ \A t \in tokensOnPage(owner, key) : pageMask(t) = pageMask(id)

\* C22: insertToken of a token whose located page is full of tokens
\* equivalent to it returns tecNO_SUITABLE_PAGE, adds no page and leaves the
\* owner's pages and the owner count as they were
C22_NoSuitablePage ==
    [][\A owner \in {BrokerSeller, BrokerBuyer}, id \in PackTokens :
          (/\ last'.op = "insertToken"
           /\ fullOfEquivalents(owner, id)
           /\ called("insertToken", insertToken(View, owner, id), live \cup {id}))
          =>
          /\ last'.ter = tecNO_SUITABLE_PAGE
          /\ keysOf(owner)' = keysOf(owner)
          /\ pages' = pages
          /\ ownerCount' = ownerCount]_vars

\* the insertion of a fifth equivalent token was refused: the holder still
\* has its one full page and is charged for one page
C22_Witness ==
    /\ last.op = "insertToken" /\ last.ter = tecNO_SUITABLE_PAGE
    /\ Cardinality(keysOf(BrokerBuyer)) = 1
    /\ nftCount(BrokerBuyer) = dirMaxTokensPerPage
    /\ \A t \in tokensOf(BrokerBuyer) :
          pageMask(t) = pageMask(createTokenID(tfTransferable, 0, 0, 0, 0))
    /\ ownerCount[BrokerBuyer] = 1

\* the largest value of the sequence field (2^32 - 1, scaled down)
maxSequence == SeqSpan - 1

\* C23: a mint that gets to doApply with mintedTokens of its issuer at the
\* largest value of the field fails with tecMAX_SEQUENCE_REACHED and leaves
\* mintedTokens as it is; no step lowers a mintedTokens field, so it never
\* wraps to 0; for a smaller value a successful mint puts a token with the
\* current value as its sequence into the submitter's directory and stores
\* the value plus one
C23_MaxSequence ==
    [][/\ \A a \in Accounts :
             mintedTokens'[a] >= mintedTokens[a] /\ mintedTokens'[a] <= maxSequence
       /\ \A account \in Accounts, issuerField \in MintIssuers, fee \in MintFees,
             taxon \in MintTaxons :
             LET issuer == IF issuerField = NoAccount THEN account ELSE issuerField
                 seq == mintedTokens[issuer]
             IN  (/\ last'.op = "NFTokenMint"
                  /\ MintPreflight(account, issuerField, fee) = tesSUCCESS
                  /\ MintPreclaim(account, issuerField) = tesSUCCESS
                  /\ submitMint(account, issuerField, fee, taxon))
                 =>
                 /\ seq = maxSequence
                       => /\ last'.ter = tecMAX_SEQUENCE_REACHED
                          /\ mintedTokens' = mintedTokens
                          /\ pages' = pages
                 /\ last'.ter = tecMAX_SEQUENCE_REACHED => seq = maxSequence
                 /\ last'.ter # tesSUCCESS => mintedTokens' = mintedTokens
                 /\ last'.ter = tesSUCCESS
                       => /\ mintedTokens' = [mintedTokens EXCEPT ![issuer] = seq + 1]
                          /\ tokensOf(account)' \ tokensOf(account)
                                = {createTokenID(tfTransferable, fee, issuer, taxon, seq)}
                          /\ \A t \in tokensOf(account)' \ tokensOf(account) :
                                t % SeqSpan = seq /\ getIssuer(t) = issuer]_vars

\* an issuer that has used up its sequence was refused one more token, and
\* the tokens it issued carry the sequences below the largest value
C23_Witness ==
    /\ last.op = "NFTokenMint" /\ last.ter = tecMAX_SEQUENCE_REACHED
    /\ \E a \in Accounts :
          /\ mintedTokens[a] = maxSequence
          /\ {t % SeqSpan : t \in {u \in allTokens : getIssuer(u) = a}}
                = 0 .. (maxSequence - 1)

\* no page is located for the token in the owner's directory, or the located
\* page does not hold it
notInLocatedPage(owner, tokenID) ==
    LET key == locatePage(View, owner, tokenID)
    IN  key = NoKey \/ tokenID \notin tokensOnPage(owner, key)

\* C24: removeToken(owner, T) returns tecNO_ENTRY and changes no page, link
\* or owner count when no page is located for T or the located page does
\* not contain T, and it returns tecNO_ENTRY in no other case
C24_NoEntry ==
    [][\A id \in DirTokens :
          (last'.op = "removeToken" /\ RemoveTokenOp(id))
          =>
          /\ notInLocatedPage(DirOwner, id)
                => /\ last'.ter = tecNO_ENTRY
                   /\ pages' = pages
                   /\ ownerCount' = ownerCount
          /\ last'.ter = tecNO_ENTRY => notInLocatedPage(DirOwner, id)]_vars

\* a removal was refused in a directory of several pages: a token the
\* directory does not hold has a located page, another has none
C24_Witness ==
    /\ last.op = "removeToken" /\ last.ter = tecNO_ENTRY
    /\ Cardinality(keysOf(DirOwner)) >= 2
    /\ \E id \in DirTokens \ tokensOf(DirOwner) : locatePage(View, DirOwner, id) # NoKey
    /\ \E id \in DirTokens \ tokensOf(DirOwner) : locatePage(View, DirOwner, id) = NoKey

\* C25: a mint that names an issuer other than its submitter fails with
\* tecNO_ISSUER when no such account exists and with tecNO_PERMISSION when
\* the minter field of that account is not the submitter, and it succeeds
\* only when the account exists and its minter field is the submitter; so
\* every token that enters a directory with an issuer other than its holder
\* does so while the issuer's minter field is that holder
C25_AuthorizedMinter ==
    [][/\ \A a \in Accounts : \A t \in tokensOf(a)' \ allTokens :
             getIssuer(t) # a => minter[getIssuer(t)] = a
       /\ \A account \in Accounts, issuerField \in Accounts \cup {NoSuchAccount},
             fee \in MintFees, taxon \in MintTaxons :
             (/\ last'.op = "NFTokenMint"
              /\ issuerField # account
              /\ submitMint(account, issuerField, fee, taxon))
             =>
             /\ issuerField \notin Accounts => last'.ter = tecNO_ISSUER
             /\ (issuerField \in Accounts /\ minter[issuerField] # account)
                   => last'.ter = tecNO_PERMISSION
             /\ last'.ter = tesSUCCESS
                   => /\ issuerField \in Accounts
                      /\ minter[issuerField] = account
                      /\ \E t \in tokensOf(account)' \ allTokens :
                            getIssuer(t) = issuerField]_vars

\* an account holds a token it minted for an issuer that has since named
\* another minter, and its next mint for that issuer was refused
C25_Witness ==
    /\ last.op = "NFTokenMint" /\ last.ter = tecNO_PERMISSION
    /\ \E a \in Accounts : \E t \in tokensOf(a) :
          /\ getIssuer(t) # a
          /\ minter[getIssuer(t)] \notin {a, NoAccount}

\* C26: a mint with transfer fee maxTransferFee (50000) is accepted and a
\* mint with a larger fee is rejected at preflight with temBAD_TRANSFER_FEE
\* and changes nothing; no token in the ledger carries a fee above
\* maxTransferFee; and in a successful sale between accounts other than the
\* issuer, what the issuer receives is at most half of the amount its cut
\* is computed on: the offer's amount in a direct accept, the buy amount
\* less the broker fee in a brokered accept
C26_TransferFeeCap ==
    [][/\ \A t \in allTokens' : getTransferFee(t) <= maxTransferFee
       /\ \A fee \in FeeFees :
             (/\ last'.op = "NFTokenMint"
              /\ submitMint(SettleMinter, SettleIssuer, fee, 0))
             =>
             /\ fee > maxTransferFee
                   => last'.ter = temBAD_TRANSFER_FEE /\ ledger' = ledger
             /\ fee <= maxTransferFee
                   => /\ last'.ter = tesSUCCESS
                      /\ \E t \in allTokens' : getTransferFee(t) = fee
       /\ \A account \in Accounts \ {SettleIssuer}, buy \in OfferIds, sell \in OfferIds,
             brokerFee \in FeeBrokerFees :
             (/\ last'.op = "NFTokenAcceptOffer"
              /\ last'.ter = tesSUCCESS
              /\ NFTokenAcceptOffer(account, buy, sell, brokerFee))
             =>
             LET base == IF buy # NoOffer /\ sell # NoOffer
                         THEN offers[buy].amount
                                  - (IF brokerFee = NoAmount THEN 0 ELSE brokerFee)
                         ELSE offers[IF buy # NoOffer THEN buy ELSE sell].amount
             IN  2 * (balance'[SettleIssuer] - balance[SettleIssuer]) <= base]_vars

\* a token with the largest transfer fee was sold for 1000 and the issuer
\* got 500 of it
C26_Witness ==
    /\ last.op = "NFTokenAcceptOffer" /\ last.ter = tesSUCCESS
    /\ \E a \in Accounts : \E t \in tokensOf(a) :
          /\ getTransferFee(t) = maxTransferFee
          /\ getIssuer(t) = SettleIssuer
          /\ a # SettleIssuer
    /\ balance[SettleIssuer] = InitBalance + 500
    /\ offers = << >>

\* owner A has listed a token without transfer fee in sell offer sell for
\* nothing and buyer B has bid 1 for it in buy offer buy
zeroPriceListing(A, B, buy, sell) ==
    /\ buy \in DOMAIN offers /\ sell \in DOMAIN offers
    /\ offers[sell].sell /\ offers[sell].owner = A /\ offers[sell].amount = 0
    /\ ~offers[buy].sell /\ offers[buy].owner = B /\ offers[buy].amount = 1
    /\ offers[buy].tokenID = offers[sell].tokenID
    /\ getTransferFee(offers[sell].tokenID) = 0
    /\ offers[sell].tokenID \in tokensOf(A)

\* C27, as stated: when B accepts A's sell offer, naming only the sell
\* offer, B pays 1 to A and the token moves to B's directory
C27_BuyerPaysBid ==
    [][\A buy \in 1 .. MaxOffers, sell \in 1 .. MaxOffers :
          (/\ last'.op = "NFTokenAcceptOffer"
           /\ zeroPriceListing(SettleMinter, BrokerBuyer, buy, sell)
           /\ NFTokenAcceptOffer(BrokerBuyer, NoOffer, sell, NoAmount))
          =>
          /\ last'.ter = tesSUCCESS
          /\ balance'[BrokerBuyer] = balance[BrokerBuyer] - 1
          /\ balance'[SettleMinter] = balance[SettleMinter] + 1
          /\ foundAfter(BrokerBuyer, offers[sell].tokenID)]_vars

\* C27, amended: when B accepts A's sell offer, naming only the sell offer,
\* B pays the amount of that offer, which is nothing, the token moves to
\* B's directory and B's bid stays in the ledger; B pays its bid of 1 to A
\* when A accepts the buy offer, or when a third account brokers the two
\* offers without a fee
C27_BuyerPaysAcceptedOffer ==
    [][\A buy \in 1 .. MaxOffers, sell \in 1 .. MaxOffers :
          LET A == SettleMinter
              B == BrokerBuyer
              tokenID == offers[sell].tokenID
              moved == /\ last'.ter = tesSUCCESS
                       /\ foundAfter(B, tokenID)
                       /\ \A a \in Accounts \ {B} : tokenID \notin tokensOf(a)'
              paid == [balance EXCEPT ![B] = @ - 1, ![A] = @ + 1]
          IN  (last'.op = "NFTokenAcceptOffer" /\ zeroPriceListing(A, B, buy, sell))
              =>
              /\ NFTokenAcceptOffer(B, NoOffer, sell, NoAmount)
                    => /\ moved
                       /\ balance' = balance
                       /\ sell \notin DOMAIN offers'
                       /\ buy \in DOMAIN offers' /\ offers'[buy] = offers[buy]
              /\ NFTokenAcceptOffer(A, buy, NoOffer, NoAmount)
                    => moved /\ balance' = paid /\ buy \notin DOMAIN offers'
              /\ \A broker \in Accounts \ {A, B, SettleIssuer} :
                    NFTokenAcceptOffer(broker, buy, sell, NoAmount)
                        => /\ moved
                           /\ balance' = paid
                           /\ buy \notin DOMAIN offers'
                           /\ sell \notin DOMAIN offers']_vars

\* the buyer took the token for nothing: nobody's balance has changed and
\* the buyer's bid of 1 for the token it now holds is still in the ledger
C27_Witness ==
    /\ last.op = "NFTokenAcceptOffer" /\ last.ter = tesSUCCESS
    /\ balance = [a \in Accounts |-> InitBalance]
    /\ \E i \in DOMAIN offers :
          /\ ~offers[i].sell /\ offers[i].owner = BrokerBuyer /\ offers[i].amount = 1
          /\ offers[i].tokenID \in tokensOf(BrokerBuyer)
          /\ getTransferFee(offers[i].tokenID) = 0

\* the tokens the packed directory holds on its first, middle and last page
pageOfPacked(n) ==
    {tokenWithLow(low) :
        low \in (n * dirMaxTokensPerPage) .. ((n + 1) * dirMaxTokensPerPage - 1)}
outerPacked == pageOfPacked(0) \cup pageOfPacked(2)
\* the directory is made of count pages, every one of them within capacity
pagesHeld(count) ==
    /\ Cardinality(keysOf(DirOwner)) = count
    /\ ownerCount[DirOwner] = count
    /\ \A k \in keysOf(DirOwner) :
          Len(pages[DirOwner][k].tokens) \in 1 .. dirMaxTokensPerPage
\* the directory held three full pages, and the tokens of the middle page
\* and the tokens in gone have been burned since
middleBurned(gone) ==
    /\ last.op = "removeToken"
    /\ live = outerPacked \ gone
    /\ tokensOf(DirOwner) = live

\* C28, as stated (pages hold 4 tokens here, 32 in the protocol): from three
\* full pages, burning all tokens of the middle page leaves two full pages;
\* burning one token of the last page then leaves two pages, with one token
\* less than two full pages; burning one more token leaves a single page
\* with two tokens less than two full pages
C28_BurnSequentialMerges ==
    /\ middleBurned({})
          => /\ pagesHeld(2)
             /\ \A k \in keysOf(DirOwner) :
                   Len(pages[DirOwner][k].tokens) = dirMaxTokensPerPage
    /\ \A t \in pageOfPacked(2) :
          middleBurned({t})
              => pagesHeld(2) /\ nftCount(DirOwner) = 2 * dirMaxTokensPerPage - 1
    /\ \A t \in pageOfPacked(2) : \A u \in outerPacked \ {t} :
          middleBurned({t, u})
              => /\ Cardinality(keysOf(DirOwner)) = 1
                 /\ nftCount(DirOwner) = 2 * dirMaxTokensPerPage - 2

\* C28, amended: from three full pages, burning all tokens of the middle
\* page leaves two full pages; burning one token of the last page then
\* leaves two pages, with one token less than two full pages; burning one
\* more token still leaves two pages, with two tokens less than two full
\* pages; the two pages are one page only once a burn leaves no more tokens
\* than one page holds
C28_BurnSequential ==
    /\ (/\ last.op = "insertToken"
        /\ live = pageOfPacked(0) \cup pageOfPacked(1) \cup pageOfPacked(2))
          => /\ pagesHeld(3)
             /\ \A k \in keysOf(DirOwner) :
                   Len(pages[DirOwner][k].tokens) = dirMaxTokensPerPage
    /\ middleBurned({})
          => /\ pagesHeld(2)
             /\ \A k \in keysOf(DirOwner) :
                   Len(pages[DirOwner][k].tokens) = dirMaxTokensPerPage
    /\ \A t \in pageOfPacked(2) :
          middleBurned({t})
              => pagesHeld(2) /\ nftCount(DirOwner) = 2 * dirMaxTokensPerPage - 1
    /\ \A t \in pageOfPacked(2) : \A u \in outerPacked \ {t} :
          middleBurned({t, u})
              => pagesHeld(2) /\ nftCount(DirOwner) = 2 * dirMaxTokensPerPage - 2
    /\ (last.op = "removeToken" /\ live \subseteq outerPacked)
          => pagesHeld(IF nftCount(DirOwner) > dirMaxTokensPerPage THEN 2
                       ELSE IF nftCount(DirOwner) > 0 THEN 1 ELSE 0)

\* the middle page and two more tokens are gone: the six tokens left are on
\* two pages, four on the first and two on the last
C28_Witness ==
    /\ \E t \in pageOfPacked(2) : \E u \in pageOfPacked(2) \ {t} : middleBurned({t, u})
    /\ pagesHeld(2)
    /\ {Len(pages[DirOwner][k].tokens) : k \in keysOf(DirOwner)}
          = {dirMaxTokensPerPage, dirMaxTokensPerPage - 2}

\* the pages before and after the page with key k are there and could be
\* merged: together they hold no more tokens than one page may
mergeableAround(owner, k) ==
    LET p == pages[owner][k] IN
    /\ p.prev # NoKey
    /\ p.next # NoKey
    /\ Len(pages[owner][p.prev].tokens) + Len(pages[owner][p.next].tokens)
          <= dirMaxTokensPerPage

\* C29: in every state reached by insertToken and removeToken from an empty
\* directory there is no page holding a single token between two pages that
\* could be merged, so the merge tried after a page between two others is
\* emptied never succeeds
C29_MergeAfterEmptiedNeverSucceeds ==
    \A k \in keysOf(DirOwner) :
        Len(pages[DirOwner][k].tokens) = 1 => ~ mergeableAround(DirOwner, k)

\* what removeToken of id is to leave behind when id is on the page with key
\* k and that page keeps tokens: withPrev and withNext say which merges are
\* to happen, survivor is the page that holds the tokens afterwards, before
\* the page in front of it, held what it holds
consolidation(owner, k, id) ==
    LET dir == pages[owner]
        rest == Len(dir[k].tokens) - 1
        p == dir[k].prev
        n == dir[k].next
        withPrev == p # NoKey /\ Len(dir[p].tokens) + rest <= dirMaxTokensPerPage
        joined == rest + (IF withPrev THEN Len(dir[p].tokens) ELSE 0)
        withNext == n # NoKey /\ joined + Len(dir[n].tokens) <= dirMaxTokensPerPage
    IN  [withPrev |-> withPrev,
         withNext |-> withNext,
         erased   |-> (IF withPrev THEN {p} ELSE {}) \cup (IF withNext THEN {k} ELSE {}),
         survivor |-> IF withNext THEN n ELSE k,
         before   |-> IF withPrev THEN dir[p].prev ELSE p,
         after    |-> IF withNext THEN dir[n].next ELSE n,
         held     |-> (Range(dir[k].tokens) \ {id})
                          \cup (IF withPrev THEN Range(dir[p].tokens) ELSE {})
                          \cup (IF withNext THEN Range(dir[n].tokens) ELSE {})]

\* C30 (pages hold 4 tokens here, 32 in the protocol): when removeToken
\* leaves the token's page non-empty, the page before it is merged into it
\* exactly when the two hold at most a page's worth of tokens together, and
\* the result is then merged into the page after it under the same
\* condition; the higher-keyed page of a merge ends up with the tokens of
\* both, sorted, the lower-keyed page is erased, the surviving page and the
\* page in front of it are linked to each other, every other page is left as
\* it was, and the owner count drops by one per merge
C30_ConsolidateAfterRemove ==
    [][\A k \in keysOf(DirOwner) : \A id \in tokensOnPage(DirOwner, k) :
          LET c == consolidation(DirOwner, k, id)
              now == pages'[DirOwner]
          IN  (/\ Len(pages[DirOwner][k].tokens) > 1
               /\ last'.op = "removeToken"
               /\ live' = live \ {id})
                  => /\ last'.ter = tesSUCCESS
                     /\ ownerCount'[DirOwner]
                           = ownerCount[DirOwner] - Cardinality(c.erased)
                     /\ DOMAIN now = keysOf(DirOwner) \ c.erased
                     /\ Range(now[c.survivor].tokens) = c.held
                     /\ Len(now[c.survivor].tokens) = Cardinality(c.held)
                     /\ \A i \in 1 .. (Len(now[c.survivor].tokens) - 1) :
                           ~ compareTokens(now[c.survivor].tokens[i + 1],
                                           now[c.survivor].tokens[i])
                     /\ now[c.survivor].prev = c.before
                     /\ now[c.survivor].next = c.after
                     /\ c.before # NoKey
                           => now[c.before]
                                 = [pages[DirOwner][c.before] EXCEPT !.next = c.survivor]
                     /\ \A other \in DOMAIN now \ {c.survivor, c.before} :
                           now[other] = pages[DirOwner][other]
      ]_vars

\* what removeToken leaves when the pages [1], [2, 3] and [4, 5] (tokens
\* named by their low parts) collapse into one as 2 is removed: a page that
\* holds 1, 3, 4 and 5 in order, in front of the last page, and an owner
\* count of two
C30_Witness ==
    /\ last = [op |-> "removeToken", ter |-> tesSUCCESS]
    /\ Cardinality(keysOf(DirOwner)) = 2
    /\ ownerCount[DirOwner] = 2
    /\ tokenWithLow(2) \notin live
    /\ \E k \in keysOf(DirOwner) :
          /\ pages[DirOwner][k].tokens
                = <<tokenWithLow(1), tokenWithLow(3), tokenWithLow(4), tokenWithLow(5)>>
          /\ pages[DirOwner][k].prev = NoKey
          /\ pages[DirOwner][k].next = pageMax

\* the array arr without the token id
without(arr, id) == SelectSeq(arr, LAMBDA t : t # id)

\* the index the full array tokens is to be split at, as the rule of the
\* directory words it (indices from 1 here, from 0 in the rule): the first
\* index behind the middle whose prefix differs from the prefix of the
\* token just before the middle, else the first index with that prefix
splitIndex(tokens) ==
    LET half == dirMaxTokensPerPage \div 2
        cmp == pageMask(tokens[half])
        differing == {j \in (half + 1) .. Len(tokens) : pageMask(tokens[j]) # cmp}
    IN  IF differing # {} THEN SetMin(differing)
        ELSE SetMin({j \in 1 .. Len(tokens) : pageMask(tokens[j]) = cmp})

\* the insertToken steps of the harnesses
insertStep(owner, id) ==
    /\ last'.op = "insertToken"
    /\ called("insertToken", insertToken(View, owner, id), live \cup {id})

\* the page insertToken locates for id is full and holds more than one
\* prefix group
fullMixedPage(owner, id) ==
    LET k == locatePage(View, owner, id) IN
    /\ k # NoKey
    /\ Len(pages[owner][k].tokens) = dirMaxTokensPerPage
    /\ \E t \in tokensOnPage(owner, k) :
          pageMask(t) # pageMask(pages[owner][k].tokens[1])

\* C31 (pages hold 4 tokens here, 32 in the protocol): when insertToken
\* targets a full page that is not a single prefix group, the page is split
\* at the first index from the middle on whose prefix differs from that of
\* the token before the middle, or else at the first index with that
\* prefix; the tokens before the index go to a new page and the others
\* stay, both parts are non-empty and no prefix group is cut; the new page
\* takes the old page's prev and has the old page as next, the old page's
\* prev is the new page, the former predecessor points to the new page, and
\* the owner count rises by one
C31_Split ==
    [][\A owner \in Accounts : \A id \in DirTokens \cup PackTokens :
          LET k == locatePage(View, owner, id)
              old == pages[owner][k]
              i == splitIndex(old.tokens)
              now == pages'[owner]
              nk == now[k].prev
          IN  (insertStep(owner, id) /\ fullMixedPage(owner, id))
              => /\ last'.ter = tesSUCCESS
                 /\ i > 1 /\ i <= dirMaxTokensPerPage
                 /\ pageMask(old.tokens[i - 1]) # pageMask(old.tokens[i])
                 /\ DOMAIN now = keysOf(owner) \cup {nk}
                 /\ nk \notin keysOf(owner)
                 /\ without(now[nk].tokens, id) = SubSeq(old.tokens, 1, i - 1)
                 /\ without(now[k].tokens, id) = SubSeq(old.tokens, i, Len(old.tokens))
                 /\ id \in Range(now[nk].tokens) \cup Range(now[k].tokens)
                 /\ now[nk].prev = old.prev
                 /\ now[nk].next = k
                 /\ now[k].next = old.next
                 /\ old.prev # NoKey
                       => now[old.prev] = [pages[owner][old.prev] EXCEPT !.next = nk]
                 /\ \A other \in keysOf(owner) \ {k, old.prev} :
                       now[other] = pages[owner][other]
                 /\ ownerCount'[owner] = ownerCount[owner] + 1
      ]_vars

\* the insertToken step of id has split the full page it located: the
\* directory has a page it did not have
splitStep(owner, id) ==
    /\ insertStep(owner, id)
    /\ locatePage(View, owner, id) # NoKey
    /\ Len(pages[owner][locatePage(View, owner, id)].tokens) = dirMaxTokensPerPage
    /\ DOMAIN pages'[owner] # keysOf(owner)

\* C32, as stated: on a split the key of the new lower page is the page
\* prefix of the first token of the full page that is split
C32_LowerPageKeyOfFirstToken ==
    [][\A owner \in Accounts : \A id \in DirTokens \cup PackTokens :
          splitStep(owner, id)
              => DOMAIN pages'[owner] \ keysOf(owner)
                    = {pageMask(pages[owner][locatePage(View, owner, id)].tokens[1])}
      ]_vars

\* C32, amended: on a split the key of the new lower page is the page
\* prefix of the token at the split index, the first token that stays on
\* the old page
C32_LowerPageKey ==
    [][\A owner \in Accounts : \A id \in DirTokens \cup PackTokens :
          LET tokens == pages[owner][locatePage(View, owner, id)].tokens IN
          splitStep(owner, id)
              => /\ DOMAIN pages'[owner] \ keysOf(owner)
                       = {pageMask(tokens[splitIndex(tokens)])}
                 /\ pageMask(tokens[splitIndex(tokens)]) > pageMask(tokens[1])
      ]_vars

\* a page has been split by the last insertToken: the owner's tokens, one
\* more than a page holds, are on two pages, and the lower page has the
\* prefix of the upper page's first token as its key, which none of its own
\* tokens has
C32_Witness ==
    /\ last = [op |-> "insertToken", ter |-> tesSUCCESS]
    /\ nftCount(DirOwner) = dirMaxTokensPerPage + 1
    /\ Cardinality(keysOf(DirOwner)) = 2
    /\ \E k \in keysOf(DirOwner) :
          LET nk == pages[DirOwner][k].prev IN
          /\ nk # NoKey
          /\ nk = pageMask(pages[DirOwner][k].tokens[1])
          /\ \A t \in tokensOnPage(DirOwner, nk) : pageMask(t) < nk

\* the payments the apply phase of an accept is to make out of the buyer's
\* account, in the order it is to make them: <<receiver, amount>>
paymentsOf(account, buy, sell, brokerFee) ==
    IF buy # NoOffer /\ sell # NoOffer
    THEN LET bo == offers[buy]
             so == offers[sell]
             tokenID == so.tokenID
             toBroker == IF brokerFee # NoAmount /\ brokerFee # 0 THEN brokerFee ELSE 0
             afterBroker == bo.amount - toBroker
             cuts == /\ afterBroker # 0 /\ getTransferFee(tokenID) # 0
                     /\ getIssuer(tokenID) \notin {bo.owner, so.owner}
             toIssuer == IF cuts THEN transferFeeCut(afterBroker, getTransferFee(tokenID))
                         ELSE 0
         IN  <<<<account, toBroker>>, <<getIssuer(tokenID), toIssuer>>,
               <<so.owner, afterBroker - toIssuer>>>>
    ELSE LET offer == offers[IF buy # NoOffer THEN buy ELSE sell]
             seller == IF offer.sell THEN offer.owner ELSE account
             buyer == IF offer.sell THEN account ELSE offer.owner
             tokenID == offer.tokenID
             cuts == /\ getTransferFee(tokenID) # 0
                     /\ getIssuer(tokenID) \notin {buyer, seller}
             toIssuer == IF cuts THEN transferFeeCut(offer.amount, getTransferFee(tokenID))
                         ELSE 0
         IN  <<<<getIssuer(tokenID), toIssuer>>, <<seller, offer.amount - toIssuer>>>>

\* the balances after the first n of the payments ps made by buyer
RECURSIVE paidOut(_, _, _, _)
paidOut(bal, buyer, ps, n) ==
    IF n = 0 THEN bal
    ELSE LET before == paidOut(bal, buyer, ps, n - 1)
             to == ps[n][1]
             amount == ps[n][2]
         IN  IF to = buyer THEN before
             ELSE [before EXCEPT ![buyer] = @ - amount, ![to] = @ + amount]

\* the number of payments of ps that are made before one fails for want of
\* funds, Len(ps) when none fails
madeOf(bal, buyer, ps) ==
    LET failing == {n \in 1 .. Len(ps) :
                       /\ ps[n][1] # buyer
                       /\ paidOut(bal, buyer, ps, n - 1)[buyer] < ps[n][2]}
    IN  IF failing = {} THEN Len(ps) ELSE SetMin(failing) - 1

\* the tokens stored on the pages of the owner in the view v
storedIn(v, owner) ==
    UNION {Range(v.pages[owner][k].tokens) : k \in DOMAIN v.pages[owner]}

\* C33: the apply phase of an accept first deletes every offer it
\* references, then makes the payments (brokered: broker fee, issuer cut,
\* remainder to the seller; direct: issuer cut, remainder to the seller),
\* and only then moves the token; the first failing step stops the later
\* ones: in the view the apply phase leaves, the referenced offers are gone
\* whatever happens later, a payment that fails leaves the payments before
\* it made and the token where it was, and a token move that fails leaves
\* all payments made
C33_ApplyOrder ==
    \A account \in Accounts, buy \in OfferIds, sell \in OfferIds,
       brokerFee \in OrderBrokerFees :
        LET r == AcceptOfferDoApply(View, account, buy, sell, brokerFee, xrpIssue)
            offer == offers[IF sell # NoOffer THEN sell ELSE buy]
            tokenID == offer.tokenID
            buyer == IF buy # NoOffer THEN offers[buy].owner ELSE account
            seller == IF sell # NoOffer THEN offers[sell].owner ELSE account
            ps == paymentsOf(account, buy, sell, brokerFee)
            made == madeOf(balance, buyer, ps)
        IN  (/\ AcceptOfferPreflight(buy, sell, brokerFee) = tesSUCCESS
             /\ AcceptOfferPreclaim(account, buy, sell, brokerFee, xrpIssue) = tesSUCCESS)
            => /\ DOMAIN r.v.offers = DOMAIN offers \ {buy, sell}
               /\ r.v.balance = paidOut(balance, buyer, ps, made)
               /\ made < Len(ps) => r.ter # tesSUCCESS /\ r.v.pages = pages
               /\ r.ter = tesSUCCESS
                     => /\ tokenID \in storedIn(r.v, buyer)
                        /\ tokenID \notin storedIn(r.v, seller)
               /\ r.ter # tesSUCCESS => r.v.pages[buyer] = pages[buyer]

\* an accept has just failed in its last step: the sell offer of 4 is still
\* in the ledger because the writes were discarded, and in the view the
\* apply phase leaves for it the offer is gone, the issuer and the seller
\* have been paid 2 each, and the buyer's full page is as it was
C33_Witness ==
    /\ last = [op |-> "NFTokenAcceptOffer", ter |-> tecNO_SUITABLE_PAGE]
    /\ \E sell \in DOMAIN offers :
          LET r == AcceptOfferDoApply(View, BrokerBuyer, NoOffer, sell, NoAmount, xrpIssue)
          IN  /\ offers[sell].sell /\ offers[sell].amount = 4
              /\ r.ter = tecNO_SUITABLE_PAGE
              /\ sell \notin DOMAIN r.v.offers
              /\ r.v.balance[BrokerBuyer] = balance[BrokerBuyer] - 4
              /\ r.v.balance[MoveIssuer] = balance[MoveIssuer] + 2
              /\ r.v.balance[BrokerSeller] = balance[BrokerSeller] + 2
              /\ r.v.pages[BrokerBuyer] = pages[BrokerBuyer]

\* the balances bal after amount has gone from one account to another
moved(bal, from, to, amount) ==
    [a \in DOMAIN bal |->
        bal[a] - (IF a = from THEN amount ELSE 0) + (IF a = to THEN amount ELSE 0)]

\* C34: in every successful accept the payments out of the buyer's account
\* total the accepted price (the buy offer's amount when brokered, the
\* single offer's amount otherwise): the balances afterwards are the
\* balances before with a part of the price moved from the buyer to the
\* broker (brokered mode only), a part to the issuer and the rest to the
\* seller, and no other balance changes
C34_PricePaidOut ==
    [][\A account \in Accounts, buy \in ResaleOfferIds, sell \in ResaleOfferIds,
          brokerFee \in OrderBrokerFees :
          (/\ last'.op = "NFTokenAcceptOffer" /\ last'.ter = tesSUCCESS
           /\ NFTokenAcceptOffer(account, buy, sell, brokerFee))
          => LET accepted == offers[IF buy # NoOffer THEN buy ELSE sell]
                 price == accepted.amount
                 buyer == IF buy # NoOffer THEN offers[buy].owner ELSE account
                 seller == IF sell # NoOffer THEN offers[sell].owner ELSE account
                 issuer == getIssuer(accepted.tokenID)
                 brokered == buy # NoOffer /\ sell # NoOffer
             IN  /\ iou' = iou
                 /\ SumOver(Accounts, balance') = SumOver(Accounts, balance)
                 /\ \E toBroker \in 0 .. price : \E toIssuer \in 0 .. (price - toBroker) :
                       /\ ~brokered => toBroker = 0
                       /\ balance' = moved(moved(moved(balance, buyer, account, toBroker),
                                                 buyer, issuer, toIssuer),
                                           buyer, seller, price - toBroker - toIssuer)
      ]_vars

\* a brokered sale has been settled: the buyer has paid the 4 it bid, 2 have
\* gone to the broker, 1 to the issuer and 1 to the seller
C34_Witness ==
    /\ last = [op |-> "NFTokenAcceptOffer", ter |-> tesSUCCESS]
    /\ \E buyer \in ResaleTraders : \E seller \in ResaleTraders \ {buyer} :
          /\ OrderToken \in tokensOf(buyer)
          /\ balance = [a \in Accounts |->
                           InitBalance + (IF a = buyer THEN 0 - 4
                                          ELSE IF a = BrokerBuyer THEN 2
                                          ELSE 1)]

\* C38: in every successful accept, direct or brokered, the buyer and the
\* seller are different accounts, also when one account owns both the buy
\* offer and the sell offer handed to a broker
C38_BuyerIsNotSeller ==
    [][\A account \in Accounts, buy \in ResaleOfferIds, sell \in ResaleOfferIds,
          brokerFee \in OrderBrokerFees :
          (/\ last'.op = "NFTokenAcceptOffer" /\ last'.ter = tesSUCCESS
           /\ NFTokenAcceptOffer(account, buy, sell, brokerFee))
          => (IF buy # NoOffer THEN offers[buy].owner ELSE account)
                # (IF sell # NoOffer THEN offers[sell].owner ELSE account)
      ]_vars

\* the offers other than the ones named, as the ledger holds them
otherOffers(held, named) == [k \in (DOMAIN held) \ named |-> held[k]]

\* the entries the offers other than the ones named have in the directories
otherEntries(entries, named) == {e \in entries : e[2] \notin named}

serialOf(id) == id % SeqSpan

\* C36: no two successful mints produce the same identifier: a successful
\* mint puts exactly one new token into the ledger, whose identifier carries
\* the issuer and the issuer's count of minted tokens, a number larger than
\* the sequence of every token of that issuer in the ledger, and raises that
\* count by one; no step, a burn included, ever lowers the count of an
\* account, so a pair of issuer and sequence is handed out once and the
\* identifier of a burned token is never made again
C36_MintSequenceUsedOnce ==
    [][/\ \A a \in Accounts : mintedTokens'[a] >= mintedTokens[a]
       /\ \A t \in allTokens : serialOf(t) < mintedTokens[getIssuer(t)]
       /\ \A account \in Accounts, issuerField \in MintIssuers, fee \in MintFees,
             taxon \in MintTaxons :
             (/\ last'.op = "NFTokenMint" /\ last'.ter = tesSUCCESS
              /\ NFTokenMint(account, issuerField, fee, taxon))
             => LET issuer == IF issuerField = NoAccount THEN account ELSE issuerField
                    made == allTokens' \ allTokens
                IN  /\ Cardinality(made) = 1
                    /\ allTokens \subseteq allTokens'
                    /\ \A t \in made :
                          /\ getIssuer(t) = issuer
                          /\ serialOf(t) = mintedTokens[issuer]
                          /\ t \notin live
                    /\ mintedTokens'[issuer] = mintedTokens[issuer] + 1
                    /\ \A a \in Accounts \ {issuer} : mintedTokens'[a] = mintedTokens[a]
      ]_vars

\* an issuer has minted a token, burned it and minted again: the one token in
\* the ledger carries the sequence after the burned one's
C36_Witness ==
    /\ last = [op |-> "NFTokenMint", ter |-> tesSUCCESS]
    /\ \E issuer \in Accounts :
          /\ mintedTokens[issuer] = 2 /\ burnedTokens[issuer] = 1
          /\ \E t \in allTokens :
                allTokens = {t} /\ getIssuer(t) = issuer /\ serialOf(t) = 1

\* C37: in brokered mode preclaim does not look at what the broker holds:
\* when both offers are in the ledger and unexpired, one a buy and one a
\* sell offer of accounts other than the broker, they satisfy the brokered
\* conditions, the seller holds the token and the buyer holds the buy amount,
\* the transaction passes preclaim whatever the broker holds
C37_BrokerNeedsNoFunds ==
    \A broker \in Accounts, buy \in 1 .. ResaleOffers, sell \in 1 .. ResaleOffers,
       brokerFee \in OrderBrokerFees :
        (/\ buy \in DOMAIN offers /\ sell \in DOMAIN offers
         /\ checkOffer(buy) = tesSUCCESS /\ checkOffer(sell) = tesSUCCESS
         /\ ~offers[buy].sell /\ offers[sell].sell
         /\ broker \notin {offers[buy].owner, offers[sell].owner}
         /\ brokeredPreclaim(offers[buy], offers[sell], brokerFee, xrpIssue) = tesSUCCESS
         /\ findToken(View, offers[sell].owner, offers[sell].tokenID)
         /\ accountHolds(View, offers[buy].owner, offers[buy].issue) >= offers[buy].amount)
        => AcceptOfferPreclaim(broker, buy, sell, brokerFee, xrpIssue) = tesSUCCESS

\* how many tokens of the prefix of id the owner holds
heldOfPrefix(owner, id) ==
    Cardinality({t \in tokensOf(owner) : pageMask(t) = pageMask(id)})

\* C39 (pages hold 4 tokens here, 32 in the protocol): insertToken fails
\* with tecNO_SUITABLE_PAGE only if the owner already holds a page's worth of
\* tokens with the page prefix of the token being inserted, and a token whose
\* prefix differs from that of every token on the full page located for it
\* is inserted successfully
C39_NoSuitablePageOnlyForEquivalents ==
    [][\A owner \in Accounts : \A id \in DirTokens \cup PackTokens :
          LET k == locatePage(View, owner, id)
          IN  insertStep(owner, id)
              => /\ last'.ter = tecNO_SUITABLE_PAGE
                    => heldOfPrefix(owner, id) >= dirMaxTokensPerPage
                 /\ (/\ k # NoKey
                     /\ Len(pages[owner][k].tokens) = dirMaxTokensPerPage
                     /\ \A t \in tokensOnPage(owner, k) : pageMask(t) # pageMask(id))
                    => last'.ter = tesSUCCESS
      ]_vars

\* the links of the page k of the owner name pages of the owner, the previous
\* one with a smaller key and the next one with a larger key, that point back
linked(owner, k) ==
    LET dir == pages[owner]
        p == dir[k]
    IN  /\ p.prev # NoKey => p.prev \in DOMAIN dir /\ p.prev < k /\ dir[p.prev].next = k
        /\ p.next # NoKey => p.next \in DOMAIN dir /\ k < p.next /\ dir[p.next].prev = k

\* C40: in every state reached by insertToken and removeToken from an empty
\* directory every prev and next key on a page names a page of the same owner
\* that points back, in key order, and neither the removeToken that has just
\* run nor any removeToken that could run next ends in an exception: loadPage
\* finds every linked page and every pair of pages handed to mergePages is in
\* key order and mutually linked
C40_ChecksNeverFire ==
    /\ \A owner \in Accounts : \A k \in keysOf(owner) : linked(owner, k)
    /\ last.op = "removeToken" => last.ter # tefEXCEPTION
    /\ \A owner \in Accounts : \A id \in tokensOf(owner) :
          removeToken(View, owner, id).ter # tefEXCEPTION

\* a removal has emptied the middle page of three and the two pages left,
\* too full to be merged, are linked to each other
C40_Witness ==
    /\ last = [op |-> "removeToken", ter |-> tesSUCCESS]
    /\ \E owner \in Accounts : \E k1 \in keysOf(owner) : \E k2 \in keysOf(owner) :
          /\ keysOf(owner) = {k1, k2} /\ k1 < k2
          /\ ownerCount[owner] = 2
          /\ pages[owner][k1].next = k2 /\ pages[owner][k2].prev = k1
          /\ Len(pages[owner][k1].tokens) + Len(pages[owner][k2].tokens)
                > dirMaxTokensPerPage

=========================================================================
